---- MODULE Spec2Model ----
(***************************************************************************)
(* pgx-v5-pool-examples: the demonstration package pgx_demo and its main.  *)
(*                                                                         *)
(* The program is a sequence of calls into pgx/pgxpool against a Postgres  *)
(* database.  The state is the database (tables, rows, id sequences), the  *)
(* pool (its connections and what is prepared on each), and what the last  *)
(* call did.  Every exported function of pgx_demo is an operator that      *)
(* takes the database, the pool, its arguments and an environment record   *)
(* (which idle connection the pool hands out, and at which library call    *)
(* the network or the server fails, if any) and yields the new database,   *)
(* the new pool, the returned error and value, and the library calls made. *)
(*                                                                         *)
(* Environment assumptions (pgx and Postgres are not part of this          *)
(* repository): a library call takes effect and returns nil, or returns an *)
(* error; an error the server raised means no effect, a connection error   *)
(* or timeout may come before the server ran the statement or after it     *)
(* (the reply is lost); a connection error inside a transaction makes the  *)
(* server roll the transaction back unless its COMMIT had already run;     *)
(* sequences (BIGSERIAL) are not transactional.                            *)
(***************************************************************************)
EXTENDS Integers, Sequences, FiniteSets, TLC

VARIABLES
    db,     \* the Postgres database
    pool,   \* the *pgxpool.Pool built by BuildPool (or the nil pool)
    last,   \* the last call of a pgx_demo function: name, arguments, error, value
    pc,     \* main: the step main is about to run
    locals, \* main: its variables dsn, userID and sid, and what is kept of the run before
    ran     \* main: the steps attempted so far, in order

vars == <<db, pool, last, pc, locals, ran>>

----------------------------------------------------------------------------
(* Bounds of the model *)

\* the id sequence of app_users is capped: inserts stop once it reached MaxSeq
MaxSeq == 3

\* likewise the id sequence of type_samples
MaxSamples == 1

\* main is started again while two more ids of app_users and one more id of
\* type_samples (what one run takes) stay within these
MaxRunSeq == 5
MaxRunSamples == 2

----------------------------------------------------------------------------
(* Values *)

NULL == "NULL"
Now == "now()"

Emails == {"alice@example.com", "bench@example.com"}
Names == {"Alice"}
MiddleNames == {"Ann"}

Nil == "nil"
ErrConn == "conn: i/o timeout"          \* any error that is not a *pgconn.PgError
ErrParse == "cannot parse dsn"
ErrNoRows == "no rows in result set"    \* pgx.ErrNoRows
ErrTxClosed == "tx is closed"           \* pgx.ErrTxClosed
ErrConnBusy == "conn busy"
ErrBalanceNull == "balance is NULL"
UniqueViolation == "23505"
ForeignKeyViolation == "23503"
UndefinedTable == "42P01"
SyntaxError == "42601"
QueryCanceled == "57014"
UnrecognizedParameter == "42704"
\* the errors that are a *pgconn.PgError: they carry an SQLSTATE code
PgErrors ==
    {UniqueViolation, ForeignKeyViolation, UndefinedTable, SyntaxError, QueryCanceled,
     UnrecognizedParameter}
\* the errors the environment injects (not decided by the database contents)
EnvErrors == {ErrConn, QueryCanceled}

psInsertUser == "ps_insert_user"
psSetLastLogin == "ps_set_last_login"
psGetUserByEmail == "ps_get_user_by_email"
psGetUserIdByEmail == "ps_get_user_id_by_email"
psEnsureAccount == "ps_ensure_account"
psGetBalance == "ps_get_balance"
psSelectUsersLight == "ps_select_users_light"
psInsertTypeSample == "ps_insert_type_sample"
psGetTypeSample == "ps_get_type_sample"

app_users == "app_users"
accounts == "accounts"
type_samples == "type_samples"
TableNames == {app_users, accounts, type_samples}

----------------------------------------------------------------------------
(* The environment of one call *)

NoFault == [call |-> "none", arg |-> "", kind |-> Nil, applied |-> FALSE]

\* the statements at which a server error that leaves the connection usable
\* (a *pgconn.PgError) is tried besides the connection error
PgFaultPoints ==
    {<<"Exec", "INSERT INTO app_users">>, <<"Exec", "ps_set_last_login">>,
     <<"Exec", "accounts">>, <<"Query", "ps_select_users_light">>}

\* the statements at which the connection error is also tried after the server
\* ran the statement: the statement took effect, its reply is lost
ReplyLostPoints ==
    {<<"Commit", "">>, <<"Exec", "ps_ensure_account">>, <<"QueryRow", "ps_insert_type_sample">>}

\* the library call (call, arg) fails
FaultsAt(points) ==
    {[call |-> p[1], arg |-> p[2], kind |-> ErrConn, applied |-> FALSE] : p \in points} \cup
    {[call |-> p[1], arg |-> p[2], kind |-> QueryCanceled, applied |-> FALSE] :
        p \in points \cap PgFaultPoints} \cup
    {[call |-> p[1], arg |-> p[2], kind |-> ErrConn, applied |-> TRUE] :
        p \in points \cap ReplyLostPoints}

\* the error the environment gives the library call (call, arg)
EnvErr(env, call, arg) ==
    IF env.fault.call = call /\ env.fault.arg = arg THEN env.fault.kind ELSE Nil

\* the library call (call, arg) fails after the server ran it
ReplyLost(env, call, arg) ==
    env.fault.call = call /\ env.fault.arg = arg /\ env.fault.applied

Call(call, arg, err) == [call |-> call, arg |-> arg, err |-> err]

----------------------------------------------------------------------------
(* The database: schema and SQL statements *)

EmptyDB ==
    [tables |-> {}, users |-> {}, accounts |-> {}, samples |-> {},
     users_seq |-> 0, samples_seq |-> 0]

\* what a transaction rolls back: tables and rows, not the sequences
Data(d) == [tables |-> d.tables, users |-> d.users,
            accounts |-> d.accounts, samples |-> d.samples]

Restore(d, snapshot) ==
    [d EXCEPT !.tables = snapshot.tables, !.users = snapshot.users,
              !.accounts = snapshot.accounts, !.samples = snapshot.samples]


DuplicateTable == "42P07"

\* CREATE TABLE t, without IF NOT EXISTS
CreateTable(d, t) ==
    IF t \in d.tables THEN [err |-> DuplicateTable, val |-> 0, db |-> d]
    ELSE IF t = accounts /\ app_users \notin d.tables
         THEN [err |-> UndefinedTable, val |-> 0, db |-> d]
    ELSE [err |-> Nil, val |-> 0, db |-> [d EXCEPT !.tables = @ \cup {t}]]

\* CREATE TABLE IF NOT EXISTS t: accounts REFERENCES app_users
CreateTableIfNotExists(d, t) ==
    IF t \in d.tables THEN [err |-> Nil, val |-> 0, db |-> d]
    ELSE IF t = accounts /\ app_users \notin d.tables
         THEN [err |-> UndefinedTable, val |-> 0, db |-> d]
    ELSE [err |-> Nil, val |-> 0, db |-> [d EXCEPT !.tables = @ \cup {t}]]

\* the DDL list of BootstrapEnsureSchema and EnsureSchema
ddl == <<app_users, accounts, type_samples>>

\* the DDL list of pgx_demo/pgx_demo.go: no type_samples
ddlTwoTables == <<app_users, accounts>>

UserByEmail(d, email) == {r \in d.users : r.email = email}
UserById(d, id) == {r \in d.users : r.id = id}



\* INSERT ... ON CONFLICT (email) DO UPDATE
\* SET name = EXCLUDED.name, middle_name = EXCLUDED.middle_name RETURNING id
SqlInsertUserSettingMiddleName(d, email, name, mid) ==
    LET id == d.users_seq + 1
        old == UserByEmail(d, email)
    IN IF old = {}
       THEN [err |-> Nil, val |-> id,
             db |-> [d EXCEPT !.users_seq = id,
                       !.users = @ \cup {[id |-> id, email |-> email, name |-> name,
                                           middle_name |-> mid, last_login |-> NULL,
                                           is_active |-> TRUE]}]]
       ELSE LET r == CHOOSE x \in old : TRUE
            IN [err |-> Nil, val |-> r.id,
                db |-> [d EXCEPT !.users_seq = id,
                          !.users = (@ \ {r}) \cup {[r EXCEPT !.name = name,
                                                              !.middle_name = mid]}]]


\* an upsert that gives the row of an email that exists the id it just drew
SqlInsertUserNewId(d, email, name, mid) ==
    LET id == d.users_seq + 1
    IN [err |-> Nil, val |-> id,
        db |-> [d EXCEPT !.users_seq = id,
                  !.users = (@ \ UserByEmail(d, email))
                               \cup {[id |-> id, email |-> email, name |-> name,
                                      middle_name |-> mid, last_login |-> NULL,
                                      is_active |-> TRUE]}]]

\* INSERT ... ON CONFLICT (email) DO NOTHING RETURNING id: no row comes back
\* for an email that exists
SqlInsertUserDoNothing(d, email, name, mid) ==
    LET id == d.users_seq + 1
    IN IF UserByEmail(d, email) = {}
       THEN [err |-> Nil, val |-> id,
             db |-> [d EXCEPT !.users_seq = id,
                       !.users = @ \cup {[id |-> id, email |-> email, name |-> name,
                                           middle_name |-> mid, last_login |-> NULL,
                                           is_active |-> TRUE]}]]
       ELSE [err |-> ErrNoRows, val |-> 0, db |-> [d EXCEPT !.users_seq = id]]

\* INSERT INTO app_users(email, name, middle_name) VALUES ($1,$2,$3)
\* ON CONFLICT (email) DO UPDATE SET name = EXCLUDED.name RETURNING id
\* (the id default nextval() is taken before the conflict is detected)
SqlInsertUser(d, email, name, mid) ==
    LET id == d.users_seq + 1
        old == UserByEmail(d, email)
    IN IF old = {}
       THEN [err |-> Nil, val |-> id,
             db |-> [d EXCEPT !.users_seq = id,
                       !.users = @ \cup {[id |-> id, email |-> email, name |-> name,
                                           middle_name |-> mid, last_login |-> NULL,
                                           is_active |-> TRUE]}]]
       ELSE LET r == CHOOSE x \in old : TRUE
            IN [err |-> Nil, val |-> r.id,
                db |-> [d EXCEPT !.users_seq = id,
                          !.users = (@ \ {r}) \cup {[r EXCEPT !.name = name]}]]

\* UPDATE app_users SET last_login = now() WHERE id = $1
SqlSetLastLogin(d, id) ==
    [err |-> Nil, val |-> 0,
     db |-> [d EXCEPT !.users =
                {IF r.id = id THEN [r EXCEPT !.last_login = Now] ELSE r : r \in @}]]



\* accounts without REFERENCES app_users(id): the insert does not look for the user
SqlEnsureAccountUnreferenced(d, userID) ==
    IF \E a \in d.accounts : a.user_id = userID THEN [err |-> Nil, val |-> 0, db |-> d]
    ELSE [err |-> Nil, val |-> 0,
          db |-> [d EXCEPT !.accounts = @ \cup {[user_id |-> userID, balance |-> 0]}]]

\* INSERT ... ON CONFLICT (user_id) DO UPDATE SET balance = 0
SqlEnsureAccountReset(d, userID) ==
    IF UserById(d, userID) = {} /\ ~\E a \in d.accounts : a.user_id = userID
    THEN [err |-> ForeignKeyViolation, val |-> 0, db |-> d]
    ELSE [err |-> Nil, val |-> 0,
          db |-> [d EXCEPT !.accounts = {a \in @ : a.user_id # userID}
                                        \cup {[user_id |-> userID, balance |-> 0]}]]

\* INSERT INTO accounts(user_id, balance) VALUES ($1, 0) ON CONFLICT (user_id) DO NOTHING
SqlEnsureAccount(d, userID) ==
    IF \E a \in d.accounts : a.user_id = userID THEN [err |-> Nil, val |-> 0, db |-> d]
    ELSE IF UserById(d, userID) = {} THEN [err |-> ForeignKeyViolation, val |-> 0, db |-> d]
    ELSE [err |-> Nil, val |-> 0,
          db |-> [d EXCEPT !.accounts = @ \cup {[user_id |-> userID, balance |-> 0]}]]

\* pgtype.Numeric{}: Valid = false stands for NULL
EmptyNumeric == [Int |-> 0, Valid |-> FALSE]

\* SELECT balance FROM accounts WHERE user_id = $1 (balance is NOT NULL)
SqlGetBalance(d, userID) ==
    LET found == {a \in d.accounts : a.user_id = userID}
    IN IF found = {} THEN [err |-> ErrNoRows, val |-> EmptyNumeric, db |-> d]
       ELSE [err |-> Nil, db |-> d,
             val |-> [Int |-> (CHOOSE a \in found : TRUE).balance, Valid |-> TRUE]]

\* INSERT INTO app_users(email, name) VALUES ($1, 'Dupe')
SqlInsertDupe(d, email) ==
    LET id == d.users_seq + 1
    IN IF UserByEmail(d, email) # {}
       THEN [err |-> UniqueViolation, val |-> 0, db |-> [d EXCEPT !.users_seq = id]]
       ELSE [err |-> Nil, val |-> 0,
             db |-> [d EXCEPT !.users_seq = id,
                       !.users = @ \cup {[id |-> id, email |-> email, name |-> "Dupe",
                                           middle_name |-> NULL, last_login |-> NULL,
                                           is_active |-> TRUE]}]]

\* ORDER BY id LIMIT 5
UsersLightLimit == 5

RECURSIVE OrderById(_)
OrderById(rows) ==
    IF rows = {} THEN <<>>
    ELSE LET r == CHOOSE x \in rows : \A y \in rows : x.id <= y.id
         IN <<r>> \o OrderById(rows \ {r})

\* SELECT id, email, name FROM app_users ORDER BY id LIMIT 5
SqlSelectUsersLight(d) ==
    LET all == OrderById(d.users)
        n == IF Len(all) < UsersLightLimit THEN Len(all) ELSE UsersLightLimit
    IN [err |-> Nil, db |-> d,
        val |-> [i \in 1..n |-> [id |-> all[i].id, email |-> all[i].email,
                                 name |-> all[i].name]]]

----------------------------------------------------------------------------
(* BuildPool: the configuration and the hooks *)

\* the connection strings tried, each with the parameters of its query part:
\* main's fallback DSN, one without pool_* parameters, one that asks for other
\* limits, one that does not parse
DSNs ==
    {[valid |-> TRUE, params |-> [sslmode |-> "disable", pool_max_conns |-> 10,
                                  pool_min_conns |-> 2, pool_min_idle_conns |-> 1]],
     [valid |-> TRUE, params |-> [sslmode |-> "disable"]],
     [valid |-> TRUE, params |-> [sslmode |-> "disable", pool_max_conns |-> 3,
                                  pool_min_conns |-> 1]],
     [valid |-> FALSE, params |-> [sslmode |-> "disable"]]}

\* the parameters of a connection string that size the pool
PoolParams == {"pool_max_conns", "pool_min_conns", "pool_min_idle_conns"}

\* the value of a parameter of the connection string, or the default
Param(dsn, key, default) ==
    IF key \in DOMAIN dsn.params THEN dsn.params[key] ELSE default

\* the library's MaxConns when the DSN has no pool_max_conns
DefaultMaxConns == 4

\* ParseConfig that leaves the pool_* parameters among the parameters of the
\* connection (as pgx.ParseConfig does)
ParseConfigKeepingPoolParams(dsn) ==
    IF ~dsn.valid THEN [err |-> ErrParse, cfg |-> [ConnConfig |-> {}, MaxConns |-> 0, MinConns |-> 0]]
    ELSE [err |-> Nil,
          cfg |-> [ConnConfig |-> DOMAIN dsn.params,
                   MaxConns |-> Param(dsn, "pool_max_conns", DefaultMaxConns),
                   MinConns |-> Param(dsn, "pool_min_conns", 0)]]

\* pgxpool.ParseConfig: the pool_* parameters become the pool's fields and are
\* taken out of the parameters of the connection, the others stay in ConnConfig
ParseConfig(dsn) ==
    IF ~dsn.valid THEN [err |-> ErrParse, cfg |-> [ConnConfig |-> {}, MaxConns |-> 0, MinConns |-> 0]]
    ELSE [err |-> Nil,
          cfg |-> [ConnConfig |-> DOMAIN dsn.params \ PoolParams,
                   MaxConns |-> Param(dsn, "pool_max_conns", DefaultMaxConns),
                   MinConns |-> Param(dsn, "pool_min_conns", 0)]]

\* pgx.ConnectConfig with the connection parameters cc: the server refuses a
\* parameter it does not know, such as a pool_* parameter
ConnectErr(cc, env) ==
    IF EnvErr(env, "ConnectConfig", "") # Nil THEN EnvErr(env, "ConnectConfig", "")
    ELSE IF cc \cap PoolParams # {} THEN UnrecognizedParameter
    ELSE Nil

\* cfg.MaxConns = 10, cfg.MinConns = 2
MaxConns == 10
MinConns == 2

\* the statements AfterConnect prepares, in its order, each with the table it reads or writes
PreparedStatements ==
    <<[name |-> psInsertUser, table |-> app_users],
      [name |-> psSetLastLogin, table |-> app_users],
      [name |-> psGetUserByEmail, table |-> app_users],
      [name |-> psEnsureAccount, table |-> accounts],
      [name |-> psGetBalance, table |-> accounts],
      [name |-> psSelectUsersLight, table |-> app_users],
      [name |-> psGetUserIdByEmail, table |-> app_users],
      [name |-> psInsertTypeSample, table |-> type_samples],
      [name |-> psGetTypeSample, table |-> type_samples]>>

PsNames == {PreparedStatements[i].name : i \in DOMAIN PreparedStatements}

\* conn.Prepare(ctx, name, sql): the server parses sql, so its table must exist
Prepare(d, env, stmt) ==
    IF EnvErr(env, "Prepare", stmt.name) # Nil THEN EnvErr(env, "Prepare", stmt.name)
    ELSE IF stmt.table \notin d.tables THEN UndefinedTable
    ELSE Nil


\* the Prepare calls of AfterConnect that go on after an error and return the
\* first error at the end
RECURSIVE PrepareAllContinuing(_, _, _, _)
PrepareAllContinuing(d, env, i, c) ==
    IF i > Len(PreparedStatements) THEN [err |-> Nil, conn |-> c, trace |-> <<>>]
    ELSE LET stmt == PreparedStatements[i]
             err == Prepare(d, env, stmt)
             this == <<Call("Prepare", stmt.name, err)>>
         IN IF err # Nil
            THEN [PrepareAllContinuing(d, env, i + 1, c)
                     EXCEPT !.trace = this \o @, !.err = err]
            ELSE [PrepareAllContinuing(d, env, i + 1,
                                       [c EXCEPT !.prepared = @ \cup {stmt.name}])
                     EXCEPT !.trace = this \o @]

\* the Prepare calls of AfterConnect from the i-th on: each error is returned at once
RECURSIVE PrepareAll(_, _, _, _)
PrepareAll(d, env, i, c) ==
    IF i > Len(PreparedStatements) THEN [err |-> Nil, conn |-> c, trace |-> <<>>]
    ELSE LET stmt == PreparedStatements[i]
             err == Prepare(d, env, stmt)
             this == <<Call("Prepare", stmt.name, err)>>
         IN IF err # Nil THEN [err |-> err, conn |-> c, trace |-> this]
            ELSE [PrepareAll(d, env, i + 1, [c EXCEPT !.prepared = @ \cup {stmt.name}])
                     EXCEPT !.trace = this \o @]


\* AfterConnect with the errors of its Prepare calls dropped
AfterConnectDroppingErrors(d, env, c) ==
    LET err == EnvErr(env, "Exec", "set application_name")
        this == <<Call("Exec", "set application_name", err)>>
    IN IF err # Nil THEN [err |-> err, conn |-> c, trace |-> this]
       ELSE [PrepareAll(d, env, 1, [c EXCEPT !.application_name = "pgxpool-demo"])
                EXCEPT !.trace = this \o @, !.err = Nil]

\* cfg.AfterConnect
AfterConnect(d, env, c) ==
    LET err == EnvErr(env, "Exec", "set application_name")
        this == <<Call("Exec", "set application_name", err)>>
    IN IF err # Nil THEN [err |-> err, conn |-> c, trace |-> this]
       ELSE [PrepareAll(d, env, 1, [c EXCEPT !.application_name = "pgxpool-demo"])
                EXCEPT !.trace = this \o @]

\* cfg.BeforeAcquire
BeforeAcquire(c) == TRUE


\* an AfterRelease hook that returns false
AfterReleaseDestroying(c) == FALSE

\* cfg.AfterRelease
AfterRelease(c) == TRUE

----------------------------------------------------------------------------
(* pgxpool: connections are made on demand, kept idle, leased and destroyed *)

\* params: the connection parameters the connection was opened with
ClosedConn ==
    [state |-> "closed", prepared |-> {}, unnamed |-> FALSE, application_name |-> "",
     params |-> {}]

NilPool == [built |-> FALSE, MaxConns |-> 0, MinConns |-> 0, ConnConfig |-> {}, conns |-> <<>>]

Slots(p) == DOMAIN p.conns
IdleSlots(p) == {s \in Slots(p) : p.conns[s].state = "idle"}
LeasedSlots(p) == {s \in Slots(p) : p.conns[s].state = "leased"}
OpenSlots(p) == {s \in Slots(p) : p.conns[s].state # "closed"}
FreeSlot(p) == CHOOSE s \in Slots(p) \ OpenSlots(p) : \A t \in Slots(p) \ OpenSlots(p) : s <= t

\* a connection whose AfterConnect returned ac: on an error it is closed and
\* never enters the pool
Connected(ac) ==
    [err |-> ac.err, conn |-> IF ac.err # Nil THEN ClosedConn ELSE ac.conn,
     trace |-> <<Call("ConnectConfig", "", Nil)>> \o ac.trace]

\* the pool opens a connection (pgx.ConnectConfig) and runs AfterConnect on it
Construct(d, p, env) ==
    IF ConnectErr(p.ConnConfig, env) # Nil
    THEN [err |-> ConnectErr(p.ConnConfig, env), conn |-> ClosedConn,
          trace |-> <<Call("ConnectConfig", "", ConnectErr(p.ConnConfig, env))>>]
    ELSE Connected(AfterConnect(d, env, [ClosedConn EXCEPT !.state = "idle",
                                                           !.params = p.ConnConfig]))

\* Acquire got the new connection n (or the error of making it) for slot s
AcquireNew(q, s, n) ==
    IF n.err # Nil
    THEN [err |-> n.err, slot |-> 0, pool |-> q,
          trace |-> n.trace \o <<Call("Acquire", "new", n.err)>>]
    ELSE [err |-> Nil, slot |-> s,
          pool |-> [q EXCEPT !.conns[s] = [n.conn EXCEPT !.state = "leased"]],
          trace |-> n.trace \o <<Call("Acquire", "new", Nil)>>]

\* Acquire without a usable idle connection: a new one while fewer than
\* MaxConns are open
AcquireConstruct(d, q, env) ==
    IF Cardinality(OpenSlots(q)) >= q.MaxConns
    THEN [err |-> ErrConn, slot |-> 0, pool |-> q,
          trace |-> <<Call("Acquire", "wait", ErrConn)>>]
    ELSE AcquireNew(q, FreeSlot(q), Construct(d, q, env))

\* pool.Acquire: an idle connection that BeforeAcquire accepts (env.pick); one it
\* rejects is destroyed
Acquire(d, p, env) ==
    IF IdleSlots(p) = {} THEN AcquireConstruct(d, p, env)
    ELSE IF BeforeAcquire(p.conns[env.pick])
    THEN [err |-> Nil, slot |-> env.pick, trace |-> <<Call("Acquire", "idle", Nil)>>,
          pool |-> [p EXCEPT !.conns[env.pick].state = "leased"]]
    ELSE AcquireConstruct(d, [p EXCEPT !.conns[env.pick] = ClosedConn], env)

\* Conn.Release: a broken connection is destroyed, the others stay if AfterRelease agrees
Release(p, s, broken) ==
    IF broken \/ ~AfterRelease(p.conns[s]) THEN [p EXCEPT !.conns[s] = ClosedConn]
    ELSE [p EXCEPT !.conns[s].state = "idle"]

\* the connections env.pick may name
Picks(p) == IF IdleSlots(p) = {} THEN {0} ELSE IdleSlots(p)

\* the faults tried while a call opens a connection: the connection is refused,
\* or it breaks at the first, at a middle or at the last step of AfterConnect
ConnectFaults ==
    {[call |-> "ConnectConfig", arg |-> "", kind |-> ErrConn, applied |-> FALSE],
     [call |-> "Exec", arg |-> "set application_name", kind |-> ErrConn, applied |-> FALSE],
     [call |-> "Prepare", arg |-> psEnsureAccount, kind |-> QueryCanceled, applied |-> FALSE],
     [call |-> "Prepare", arg |-> psGetTypeSample, kind |-> ErrConn, applied |-> FALSE]}

\* BuildPool that keeps the limits ParseConfig took from the connection string
TuneNothing(cfg) == cfg

\* cfg.MaxConns = 10; cfg.MinConns = 2: whatever ParseConfig had put there
Tune(cfg) == [cfg EXCEPT !.MaxConns = MaxConns, !.MinConns = MinConns]

\* pgxpool.NewWithConfig: a pool with room for cfg.MaxConns connections, none open yet
NewWithConfig(cfg) ==
    [built |-> TRUE, MaxConns |-> cfg.MaxConns, MinConns |-> cfg.MinConns,
     ConnConfig |-> cfg.ConnConfig,
     conns |-> [s \in 1..cfg.MaxConns |-> ClosedConn]]

\* BuildPool: ParseConfig, the limits, the hooks, NewWithConfig
BuildPool(dsn) ==
    IF ParseConfig(dsn).err # Nil THEN [err |-> ParseConfig(dsn).err, pool |-> NilPool]
    ELSE [err |-> Nil, pool |-> NewWithConfig(Tune(ParseConfig(dsn).cfg))]

----------------------------------------------------------------------------
(* pgx: statements on a connection, transactions *)

\* what a pgx_demo function returns and leaves behind; beforeDefer is the
\* database when the function body returned, before its deferred calls ran
Ret(err, val, d, p, trace, beforeDefer) ==
    [err |-> err, val |-> val, db |-> d, pool |-> p, trace |-> trace,
     beforeDefer |-> beforeDefer]

\* one statement on connection c: a statement named like a prepared statement
\* runs only where it is prepared (elsewhere its name is sent as SQL text);
\* sql is what the statement does to the database
Run(d, c, env, call, stmt, sql) ==
    IF EnvErr(env, call, stmt) # Nil
    THEN [err |-> EnvErr(env, call, stmt), val |-> sql.val,
          db |-> IF ReplyLost(env, call, stmt) THEN sql.db ELSE d,
          broken |-> EnvErr(env, call, stmt) = ErrConn,
          trace |-> <<Call(call, stmt, EnvErr(env, call, stmt))>>]
    ELSE IF stmt \in PsNames /\ stmt \notin c.prepared
    THEN [err |-> SyntaxError, val |-> sql.val, db |-> d, broken |-> FALSE,
          trace |-> <<Call(call, stmt, SyntaxError)>>]
    ELSE [err |-> sql.err, val |-> sql.val, db |-> sql.db, broken |-> FALSE,
          trace |-> <<Call(call, stmt, sql.err)>>]

\* the statement of pool.Exec / pool.QueryRow returned r on the connection of a:
\* the connection is released
PoolRan(a, r) ==
    [err |-> r.err, val |-> r.val, db |-> r.db,
     pool |-> Release(a.pool, a.slot, r.broken),
     trace |-> a.trace \o r.trace \o <<Call("Release", "", Nil)>>]

\* pool.Exec / pool.QueryRow(...).Scan after its Acquire returned a
PoolRunOn(d, a, env, call, stmt, sql) ==
    IF a.err # Nil
    THEN [err |-> a.err, val |-> sql.val, db |-> d, pool |-> a.pool, trace |-> a.trace]
    ELSE PoolRan(a, Run(d, a.pool.conns[a.slot], env, call, stmt, sql))

\* pool.Exec / pool.QueryRow(...).Scan: Acquire, the statement, Release
PoolRun(d, p, env, call, stmt, sql) ==
    PoolRunOn(d, Acquire(d, p, env), env, call, stmt, sql)

NoTx == [slot |-> 0, snapshot |-> Data(EmptyDB), closed |-> TRUE, broken |-> FALSE]

\* pool.Begin after its Acquire returned a: BEGIN
BeginOn(d, a, e) ==
    IF a.err # Nil THEN [err |-> a.err, tx |-> NoTx, pool |-> a.pool, trace |-> a.trace]
    ELSE IF e # Nil
    THEN [err |-> e, tx |-> NoTx, pool |-> Release(a.pool, a.slot, e = ErrConn),
          trace |-> a.trace \o <<Call("Begin", "", e)>>]
    ELSE [err |-> Nil, pool |-> a.pool,
          tx |-> [slot |-> a.slot, snapshot |-> Data(d), closed |-> FALSE,
                  broken |-> FALSE],
          trace |-> a.trace \o <<Call("Begin", "", Nil)>>]

\* pool.Begin: Acquire and BEGIN
Begin(d, p, env) == BeginOn(d, Acquire(d, p, env), EnvErr(env, "Begin", ""))

\* the statement of a transaction returned r
TxRan(tx, r) ==
    [err |-> r.err, val |-> r.val, db |-> r.db, trace |-> r.trace,
     tx |-> [tx EXCEPT !.broken = r.broken]]

\* tx.Exec / tx.QueryRow(...).Scan / tx.Query
TxRun(d, p, tx, env, call, stmt, sql) ==
    TxRan(tx, Run(d, p.conns[tx.slot], env, call, stmt, sql))

\* tx.Commit fails when the connection is busy with an open result set (COMMIT
\* is not sent) or when the connection fails
CommitErr(env, busy) ==
    IF busy THEN ErrConnBusy ELSE EnvErr(env, "Commit", "")

\* the server committed: COMMIT was sent and ran, whether or not its reply arrived
Committed(env, busy) ==
    ~busy /\ (EnvErr(env, "Commit", "") = Nil \/ ReplyLost(env, "Commit", ""))

\* tx.Commit: a closed transaction is left alone; when it fails the connection
\* is closed, and the server rolls back what it had not committed; the
\* connection is released
Commit(d, p, tx, env, busy) ==
    IF tx.closed THEN [err |-> ErrTxClosed, db |-> d, pool |-> p, tx |-> tx,
                       trace |-> <<Call("Commit", "", ErrTxClosed)>>]
    ELSE [err |-> CommitErr(env, busy),
          db |-> IF Committed(env, busy) THEN d ELSE Restore(d, tx.snapshot),
          pool |-> Release(p, tx.slot, CommitErr(env, busy) # Nil),
          tx |-> [tx EXCEPT !.closed = TRUE],
          trace |-> <<Call("Commit", "", CommitErr(env, busy))>>]


\* tx.Rollback that sends ROLLBACK whatever the state of the transaction
RollbackAlways(d, p, tx) ==
    [err |-> Nil, db |-> Restore(d, tx.snapshot),
     pool |-> IF tx.closed THEN p ELSE Release(p, tx.slot, tx.broken),
     tx |-> [tx EXCEPT !.closed = TRUE],
     trace |-> <<Call("Rollback", "", Nil)>>]

\* tx.Rollback: after Commit (the transaction is closed) it returns ErrTxClosed
\* and does nothing; otherwise the changes since Begin are undone and the
\* connection is released
Rollback(d, p, tx) ==
    IF tx.closed THEN [err |-> ErrTxClosed, db |-> d, pool |-> p, tx |-> tx,
                       trace |-> <<Call("Rollback", "", ErrTxClosed)>>]
    ELSE [err |-> Nil, db |-> Restore(d, tx.snapshot),
          pool |-> Release(p, tx.slot, tx.broken),
          tx |-> [tx EXCEPT !.closed = TRUE],
          trace |-> <<Call("Rollback", "", Nil)>>]

\* the function returns what its body left (r) after the deferred Rollback (rb)
AfterRollback(r, rb) ==
    Ret(r.err, r.val, rb.db, rb.pool, r.trace \o rb.trace, r.db)

\* defer func() { _ = tx.Rollback(ctx) }(): it runs when the body returned r
DeferredRollback(r) == AfterRollback(r, Rollback(r.db, r.pool, r.tx))

----------------------------------------------------------------------------
(* package pgx_demo *)

\* the loop over the DDL list on a direct connection: the first error ends it
RECURSIVE ExecDDL(_, _, _, _)
ExecDDL(d, env, list, i) ==
    IF i > Len(list) THEN [err |-> Nil, db |-> d, trace |-> <<>>]
    ELSE LET e == EnvErr(env, "Exec", list[i])
             r == CreateTableIfNotExists(d, list[i])
             err == IF e # Nil THEN e ELSE r.err
             this == <<Call("Exec", list[i], err)>>
         IN IF err # Nil THEN [err |-> err, db |-> d, trace |-> this]
            ELSE [ExecDDL(r.db, env, list, i + 1) EXCEPT !.trace = this \o @]

\* BootstrapEnsureSchema returns what the loop returned; the deferred conn.Close ran
Bootstrapped(p, r) ==
    Ret(r.err, 0, r.db, p,
        <<Call("ParseConfig", "", Nil), Call("ConnectConfig", "", Nil)>>
        \o r.trace \o <<Call("Close", "", Nil)>>, r.db)

\* BootstrapEnsureSchema over a DDL list: ParseConfig, ConnectConfig, the loop
Bootstrap(d, p, dsn, env, list) ==
    IF ParseConfig(dsn).err # Nil
    THEN Ret(ParseConfig(dsn).err, 0, d, p,
             <<Call("ParseConfig", "", ParseConfig(dsn).err)>>, d)
    ELSE IF ConnectErr(ParseConfig(dsn).cfg.ConnConfig, env) # Nil
    THEN Ret(ConnectErr(ParseConfig(dsn).cfg.ConnConfig, env), 0, d, p,
             <<Call("ParseConfig", "", Nil),
               Call("ConnectConfig", "", ConnectErr(ParseConfig(dsn).cfg.ConnConfig, env))>>, d)
    ELSE Bootstrapped(p, ExecDDL(d, env, list, 1))

BootstrapEnsureSchema(d, p, dsn, env) == Bootstrap(d, p, dsn, env, ddl)

\* BootstrapEnsureSchema as pgx_demo/pgx_demo.go has it
BootstrapEnsureSchemaTwoTables(d, p, dsn, env) == Bootstrap(d, p, dsn, env, ddlTwoTables)

BootstrapPoints == {<<"ConnectConfig", "">>} \cup {<<"Exec", t>> : t \in TableNames}

\* the loop of EnsureSchema: pool.Exec of each DDL statement, the first error ends it
RECURSIVE PoolExecDDL(_, _, _, _, _)
RECURSIVE PoolExecDDLNext(_, _, _, _, _)

PoolExecDDL(d, p, env, list, i) ==
    IF i > Len(list) THEN [err |-> Nil, db |-> d, pool |-> p, trace |-> <<>>]
    ELSE PoolExecDDLNext(d, env, list, i,
            PoolRun(d, p, env, "Exec", list[i], CreateTableIfNotExists(d, list[i])))

\* the i-th pool.Exec returned r
PoolExecDDLNext(d, env, list, i, r) ==
    IF r.err # Nil THEN [err |-> r.err, db |-> d, pool |-> r.pool, trace |-> r.trace]
    ELSE [PoolExecDDL(r.db, r.pool,
                      [env EXCEPT !.pick = CHOOSE s \in Picks(r.pool) : TRUE], list, i + 1)
             EXCEPT !.trace = r.trace \o @]

\* a function that returns the error of its one pool call
Returns(r, val) == Ret(r.err, val, r.db, r.pool, r.trace, r.db)

EnsureSchema(d, p, env) == Returns(PoolExecDDL(d, p, env, ddl, 1), 0)

EnsureSchemaPoints == {<<"Exec", t>> : t \in TableNames}

\* pgtype.Text of a *string
TextOf(middleName) ==
    IF middleName # Nil THEN [String |-> middleName, Valid |-> TRUE]
    ELSE [String |-> "", Valid |-> FALSE]

\* a pgtype.Text as a statement argument: Valid = false is written as NULL
EncodeText(t) == IF t.Valid THEN t.String ELSE NULL

\* UpsertUserAndLogLogin: return userID, tx.Commit(ctx) after the statements q and x
UpsertAfterCommit(b, q, x, c) ==
    [err |-> c.err, val |-> IF c.err # Nil THEN 0 ELSE q.val,
     db |-> c.db, pool |-> c.pool, tx |-> c.tx,
     trace |-> b.trace \o q.trace \o x.trace \o c.trace]


\* UpsertUserAndLogLogin returning after tx.Exec(psSetLastLogin) without tx.Commit
UpsertWithoutCommit(b, q, x, env) ==
    [err |-> x.err, val |-> IF x.err # Nil THEN 0 ELSE q.val, db |-> x.db,
     pool |-> b.pool, tx |-> x.tx, trace |-> b.trace \o q.trace \o x.trace]

\* UpsertUserAndLogLogin after tx.Exec(psSetLastLogin) returned x
UpsertAfterUpdate(b, q, x, env) ==
    IF x.err # Nil
    THEN [err |-> x.err, val |-> 0, db |-> x.db, pool |-> b.pool, tx |-> x.tx,
          trace |-> b.trace \o q.trace \o x.trace]
    ELSE UpsertAfterCommit(b, q, x, Commit(x.db, b.pool, x.tx, env, FALSE))

\* UpsertUserAndLogLogin after tx.QueryRow(psInsertUser).Scan(&userID) returned q
UpsertAfterInsert(b, q, env) ==
    IF q.err # Nil
    THEN [err |-> q.err, val |-> 0, db |-> q.db, pool |-> b.pool, tx |-> q.tx,
          trace |-> b.trace \o q.trace]
    ELSE UpsertAfterUpdate(b, q, TxRun(q.db, b.pool, q.tx, env, "Exec", psSetLastLogin,
                                       SqlSetLastLogin(q.db, q.val)), env)

\* UpsertUserAndLogLogin after pool.Begin returned b: defer Rollback, the body
UpsertAfterBegin(d, b, email, name, middleName, env) ==
    IF b.err # Nil THEN Ret(b.err, 0, d, b.pool, b.trace, d)
    ELSE DeferredRollback(
            UpsertAfterInsert(b, TxRun(d, b.pool, b.tx, env, "QueryRow", psInsertUser,
                                       SqlInsertUser(d, email, name,
                                                     EncodeText(TextOf(middleName)))), env))

UpsertUserAndLogLogin(d, p, email, name, middleName, env) ==
    UpsertAfterBegin(d, Begin(d, p, env), email, name, middleName, env)

UpsertPoints ==
    {<<"Begin", "">>, <<"QueryRow", psInsertUser>>, <<"Exec", psSetLastLogin>>,
     <<"Commit", "">>}

\* EnsureAccount
EnsureAccount(d, p, userID, env) ==
    Returns(PoolRun(d, p, env, "Exec", psEnsureAccount, SqlEnsureAccount(d, userID)), 0)


\* GetBalance without the check of n.Valid
GetBalanceUnchecked(r) ==
    IF r.err # Nil THEN Returns(r, EmptyNumeric) ELSE Returns(r, r.val)

\* GetBalance after QueryRow(psGetBalance).Scan(&bal) returned r
GetBalanceScanned(r) ==
    IF r.err # Nil THEN Returns(r, EmptyNumeric)
    ELSE IF ~r.val.Valid THEN Ret(ErrBalanceNull, EmptyNumeric, r.db, r.pool, r.trace, r.db)
    ELSE Returns(r, r.val)

GetBalance(d, p, userID, env) ==
    GetBalanceScanned(PoolRun(d, p, env, "QueryRow", psGetBalance, SqlGetBalance(d, userID)))


\* errors.As that never matches
IsNeverPgError(err) == FALSE

\* errors.As(err, &pge)
IsPgError(err) == err \in PgErrors



\* DemoPgErrorHandling that returns nil for the code 23505 only
DemoPgErrorByCode(r) ==
    IF r.err = Nil THEN Returns(r, 0)
    ELSE IF IsPgError(r.err) /\ r.err = UniqueViolation
    THEN Ret(Nil, 0, r.db, r.pool, r.trace, r.db)
    ELSE Returns(r, 0)

\* DemoPgErrorHandling that logs every error and returns nil
DemoPgErrorSwallowed(r) == Ret(Nil, 0, r.db, r.pool, r.trace, r.db)

\* DemoPgErrorHandling after pool.Exec returned r: a *pgconn.PgError is logged
\* and nil returned, any other error is returned
DemoPgErrorHandled(r) ==
    IF r.err = Nil THEN Returns(r, 0)
    ELSE IF IsPgError(r.err) THEN Ret(Nil, 0, r.db, r.pool, r.trace, r.db)
    ELSE Returns(r, 0)

DemoPgErrorHandling(d, p, email, env) ==
    DemoPgErrorHandled(PoolRun(d, p, env, "Exec", "INSERT INTO app_users",
                               SqlInsertDupe(d, email)))


\* c.Release() that is not deferred: it is skipped when the body returns an error
ReleasedUnlessError(a, r) ==
    Ret(r.err, r.val, r.db,
        IF r.err # Nil THEN a.pool ELSE Release(a.pool, a.slot, r.broken),
        a.trace \o r.trace \o <<Call("Release", "", Nil)>>, r.db)

\* with the deferred conn.Release()
Released(a, r) ==
    Ret(r.err, r.val, r.db, Release(a.pool, a.slot, r.broken),
        a.trace \o r.trace \o <<Call("Release", "", Nil)>>, r.db)

\* SampleAcquireRelease after pool.Acquire returned a: defer Release, select now()
SampleAcquired(d, a, env) ==
    IF a.err # Nil THEN Ret(a.err, 0, d, a.pool, a.trace, d)
    ELSE Released(a, Run(d, a.pool.conns[a.slot], env, "QueryRow", "select now()",
                         [err |-> Nil, val |-> Now, db |-> d]))

SampleAcquireRelease(d, p, env) == SampleAcquired(d, Acquire(d, p, env), env)

\* SELECT id, email, name, middle_name, last_login, is_active FROM app_users WHERE email = $1
SqlGetUserByEmail(d, email) ==
    IF UserByEmail(d, email) = {} THEN [err |-> ErrNoRows, val |-> <<>>, db |-> d]
    ELSE [err |-> Nil, val |-> <<CHOOSE r \in UserByEmail(d, email) : TRUE>>, db |-> d]

\* a nullable text or timestamp column scanned into a pgtype value
ScanNullable(v) == IF v = NULL THEN [V |-> "", Valid |-> FALSE] ELSE [V |-> v, Valid |-> TRUE]

\* the line DemoScanWithPgtype logs for the scanned row u
LogLine(u, middleName, lastLogin) ==
    <<[id |-> u.id, email |-> u.email, name |-> u.name,
       middle_name |-> IF middleName.Valid THEN middleName.V ELSE "NULL",
       last_login |-> IF lastLogin.Valid THEN lastLogin.V ELSE "NULL",
       is_active |-> u.is_active]>>

\* DemoScanWithPgtype after QueryRow(psGetUserByEmail).Scan returned r
DemoScanned(r) ==
    IF r.err # Nil THEN Returns(r, <<>>)
    ELSE Returns(r, LogLine(r.val[1], ScanNullable(r.val[1].middle_name),
                            ScanNullable(r.val[1].last_login)))

DemoScanWithPgtype(d, p, email, env) ==
    DemoScanned(PoolRun(d, p, env, "QueryRow", psGetUserByEmail, SqlGetUserByEmail(d, email)))

\* for rows.Next() { rows.Scan(...); log }: Next returns false at the end of the
\* rows or on an error, and closes the result set then; a Scan error closes it too
RECURSIVE Iterate(_, _, _)
Iterate(rows, i, env) ==
    LET ne == IF i = 1 THEN EnvErr(env, "Next", "") ELSE Nil
        se == IF i = 1 THEN EnvErr(env, "Scan", "") ELSE Nil
    IN IF ne # Nil \/ i > Len(rows)
       THEN [rowsErr |-> ne, scanErr |-> Nil, closed |-> TRUE, seen |-> <<>>,
             trace |-> <<Call("Next", "false", ne)>>]
       ELSE IF se # Nil
       THEN [rowsErr |-> se, scanErr |-> se, closed |-> TRUE, seen |-> <<>>,
             trace |-> <<Call("Next", "true", Nil), Call("Scan", "", se)>>]
       ELSE [Iterate(rows, i + 1, env)
                EXCEPT !.seen = <<rows[i]>> \o @,
                       !.trace = <<Call("Next", "true", Nil), Call("Scan", "", Nil)>> \o @]

\* defer rows.Close(): it runs when the body returned r
DeferredRowsClose(r) == [r EXCEPT !.trace = @ \o <<Call("rows.Close", "", Nil)>>]

\* ShowQueryMetadata after the loop returned it: return rows.Err()
ShowQueryAfterLoop(d, q, it) ==
    IF it.scanErr # Nil
    THEN [err |-> it.scanErr, val |-> it.seen, db |-> d, broken |-> it.rowsErr = ErrConn,
          trace |-> q.trace \o it.trace]
    ELSE [err |-> it.rowsErr, val |-> it.seen, db |-> d, broken |-> it.rowsErr = ErrConn,
          trace |-> q.trace \o it.trace \o <<Call("rows.Err", "", it.rowsErr)>>]

\* ShowQueryMetadata after pool.Query returned q: defer rows.Close, FieldDescriptions, the loop
ShowQueryAfterQuery(d, a, q, env) ==
    IF q.err # Nil THEN Released(a, [q EXCEPT !.val = <<>>])
    ELSE Released(a, DeferredRowsClose(ShowQueryAfterLoop(d, q, Iterate(q.val, 1, env))))

ShowQueryAcquired(d, a, env) ==
    IF a.err # Nil THEN Ret(a.err, <<>>, d, a.pool, a.trace, d)
    ELSE ShowQueryAfterQuery(d, a, Run(d, a.pool.conns[a.slot], env, "Query",
                                       psSelectUsersLight, SqlSelectUsersLight(d)), env)

\* ShowQueryMetadata: pool.Query (Acquire, the query; the connection is
\* released when the rows are closed)
ShowQueryMetadata(d, p, env) == ShowQueryAcquired(d, Acquire(d, p, env), env)

\* TxQueryExample: return tx.Commit(ctx) returned c
TxQueryAfterCommit(b, q, it, c) ==
    [err |-> c.err, val |-> it.seen, db |-> c.db, pool |-> c.pool, tx |-> c.tx,
     trace |-> b.trace \o q.trace \o it.trace \o <<Call("rows.Err", "", Nil)>> \o c.trace]

\* TxQueryExample after the loop returned it: a Scan error is returned, then
\* rows.Err(), then tx.Commit
TxQueryAfterLoop(b, q, it, tx1, env) ==
    IF it.scanErr # Nil
    THEN [err |-> it.scanErr, val |-> it.seen, db |-> q.db, pool |-> b.pool, tx |-> tx1,
          trace |-> b.trace \o q.trace \o it.trace]
    ELSE IF it.rowsErr # Nil
    THEN [err |-> it.rowsErr, val |-> it.seen, db |-> q.db, pool |-> b.pool, tx |-> tx1,
          trace |-> b.trace \o q.trace \o it.trace \o <<Call("rows.Err", "", it.rowsErr)>>]
    ELSE TxQueryAfterCommit(b, q, it, Commit(q.db, b.pool, tx1, env, ~it.closed))

\* TxQueryExample: the loop over the rows of q
TxQueryLoop(b, q, it, env) ==
    TxQueryAfterLoop(b, q, it, [q.tx EXCEPT !.broken = it.rowsErr = ErrConn], env)

\* TxQueryExample after tx.Query returned q: defer rows.Close, the loop
TxQueryAfterQuery(b, q, env) ==
    IF q.err # Nil
    THEN [err |-> q.err, val |-> <<>>, db |-> q.db, pool |-> b.pool, tx |-> q.tx,
          trace |-> b.trace \o q.trace]
    ELSE DeferredRowsClose(TxQueryLoop(b, q, Iterate(q.val, 1, env), env))

\* TxQueryExample after pool.Begin returned b: defer Rollback, tx.Query
TxQueryAfterBegin(d, b, env) ==
    IF b.err # Nil THEN Ret(b.err, <<>>, d, b.pool, b.trace, d)
    ELSE DeferredRollback(
            TxQueryAfterQuery(b, TxRun(d, b.pool, b.tx, env, "Query", psSelectUsersLight,
                                       SqlSelectUsersLight(d)), env))

\* TxQueryExample: the deferred calls run last, in reverse order
TxQueryExample(d, p, env) == TxQueryAfterBegin(d, Begin(d, p, env), env)

TxQueryPoints ==
    {<<"Begin", "">>, <<"Query", psSelectUsersLight>>, <<"Next", "">>, <<"Scan", "">>,
     <<"Commit", "">>}

\* ShowPreparedStatementMetadata after conn.Conn().Prepare(ctx, "", sql) returned
\* err: the unnamed statement of the connection is replaced, no named one
ShowPrepared(d, a, err) ==
    Ret(err, IF err = Nil THEN <<"id", "email">> ELSE <<>>, d,
        Release(IF err = Nil THEN [a.pool EXCEPT !.conns[a.slot].unnamed = TRUE] ELSE a.pool,
                a.slot, err = ErrConn),
        a.trace \o <<Call("Prepare", "", err), Call("Release", "", Nil)>>, d)

ShowPreparedAcquired(d, a, env) ==
    IF a.err # Nil THEN Ret(a.err, <<>>, d, a.pool, a.trace, d)
    ELSE ShowPrepared(d, a, Prepare(d, env, [name |-> "", table |-> app_users]))

\* ShowPreparedStatementMetadata: Acquire, defer Release, Prepare
ShowPreparedStatementMetadata(d, p, env) == ShowPreparedAcquired(d, Acquire(d, p, env), env)

\* pool.Ping after its Acquire returned a: Conn.Ping, Release
PingOn(d, a, e) ==
    IF a.err # Nil THEN Ret(a.err, 0, d, a.pool, a.trace, d)
    ELSE Ret(e, 0, d, Release(a.pool, a.slot, e = ErrConn),
             a.trace \o <<Call("Ping", "", e), Call("Release", "", Nil)>>, d)

\* pool.Ping
Ping(d, p, env) == PingOn(d, Acquire(d, p, env), EnvErr(env, "Ping", ""))

----------------------------------------------------------------------------
(* TypeSample: eight pgtype fields, each a value and a Valid flag *)

Fields == {"UUID", "I2", "I4", "I8", "Flag", "Note", "Num", "TS"}

\* the Go zero value of each field's value
Zero(f) == IF f = "Flag" THEN FALSE ELSE IF f \in {"Note", "UUID"} THEN "" ELSE 0

Invalid(f) == [V |-> Zero(f), Valid |-> FALSE]

\* the sample main inserts: I4 = 42, Flag = true, the rest NULL
MainSample ==
    [f \in Fields |-> IF f = "I4" THEN [V |-> 42, Valid |-> TRUE]
                      ELSE IF f = "Flag" THEN [V |-> TRUE, Valid |-> TRUE]
                      ELSE Invalid(f)]

\* TypeSample{}
EmptySample == [f \in Fields |-> Invalid(f)]

\* a sample with every field set: Num is 1.005 (a number is held in thousandths),
\* TS is a time with 1500 ns after the second (a time is held in nanoseconds)
FullSample ==
    [f \in Fields |->
        [Valid |-> TRUE,
         V |-> CASE f = "UUID" -> "6ba7b810"
                 [] f = "I2" -> 2
                 [] f = "I4" -> 4
                 [] f = "I8" -> 8
                 [] f = "Flag" -> FALSE
                 [] f = "Note" -> "note"
                 [] f = "Num" -> 1005
                 [] f = "TS" -> 1500]]

\* the samples tried
Samples == {MainSample, EmptySample, FullSample}

\* what the column of field f stores for the value v: num is NUMERIC(12,2), it
\* rounds to two decimal places; ts is TIMESTAMPTZ, it keeps microseconds; the
\* other columns are as wide as their Go types
ColumnValue(f, v) ==
    IF f = "Num" THEN ((v + 5) \div 10) * 10
    ELSE IF f = "TS" THEN (v \div 1000) * 1000
    ELSE v

\* a pgtype value as a statement argument that is written whatever its Valid flag
EncodeFieldIgnoringValid(f, x) == [null |-> FALSE, v |-> x.V]

\* a pgtype value as a statement argument: Valid = false is written as NULL
EncodeField(f, x) == IF x.Valid THEN [null |-> FALSE, v |-> x.V] ELSE [null |-> TRUE, v |-> Zero(f)]

\* a column scanned into a pgtype value: NULL is read as Valid = false
ScanField(f, c) == IF c.null THEN Invalid(f) ELSE [V |-> c.v, Valid |-> TRUE]

\* the column of field f after the argument a was written to it
StoreField(f, a) == IF a.null THEN a ELSE [a EXCEPT !.v = ColumnValue(f, @)]

\* INSERT INTO type_samples(uid, i2, i4, i8, flag, note, num, ts) VALUES (...) RETURNING id
SqlInsertTypeSample(d, s) ==
    LET id == d.samples_seq + 1
    IN [err |-> Nil, val |-> id,
        db |-> [d EXCEPT !.samples_seq = id,
                  !.samples = @ \cup {[id |-> id,
                                       cols |-> [f \in Fields |->
                                                   StoreField(f, EncodeField(f, s[f]))]]}]]

\* SELECT uid, i2, i4, i8, flag, note, num, ts FROM type_samples WHERE id = $1
SqlGetTypeSample(d, id) ==
    LET found == {r \in d.samples : r.id = id}
    IN IF found = {} THEN [err |-> ErrNoRows, val |-> EmptySample, db |-> d]
       ELSE [err |-> Nil, db |-> d,
             val |-> [f \in Fields |-> ScanField(f, (CHOOSE r \in found : TRUE).cols[f])]]

\* return id, err / return ts, err after QueryRow(...).Scan returned r: on an
\* error the value is the zero value
ValueOrZero(r, zero) == Returns(r, IF r.err # Nil THEN zero ELSE r.val)

\* InsertTypeSample
InsertTypeSample(d, p, s, env) ==
    ValueOrZero(PoolRun(d, p, env, "QueryRow", psInsertTypeSample, SqlInsertTypeSample(d, s)), 0)

\* GetTypeSample
GetTypeSample(d, p, id, env) ==
    ValueOrZero(PoolRun(d, p, env, "QueryRow", psGetTypeSample, SqlGetTypeSample(d, id)),
                EmptySample)

----------------------------------------------------------------------------
(* The states the program starts in *)

\* the database outlives the program: it is new, or it holds the schema and the
\* rows of earlier runs and of other clients (a balance someone changed)
SeedDBs ==
    {EmptyDB,
     [EmptyDB EXCEPT
        !.tables = TableNames,
        !.users = {[id |-> 1, email |-> "alice@example.com", name |-> "Al",
                    middle_name |-> NULL, last_login |-> NULL, is_active |-> FALSE]},
        !.accounts = {[user_id |-> 1, balance |-> 500]},
        !.users_seq = 1]}

\* what is kept of the run of main before this one: whether it logged its
\* success, and then its dsn, its userID and the rows it left
NoPrev == [ok |-> FALSE, dsn |-> CHOOSE d \in DSNs : ~d.valid, userID |-> 0,
           data |-> Data(EmptyDB)]

NoLocals == [dsn |-> CHOOSE d \in DSNs : ~d.valid, userID |-> 0, sid |-> 0, logged |-> FALSE,
             prev |-> NoPrev]

NoCall == [op |-> "none", args |-> <<>>, err |-> Nil, val |-> 0]

Init ==
    /\ db \in SeedDBs
    /\ pool = NilPool
    /\ last = NoCall
    /\ pc = "Getenv"
    /\ locals = NoLocals
    /\ ran = <<>>

\* the environments of a call on pool p whose own library calls are points
Envs(p, points) ==
    {[pick |-> s, fault |-> f] :
        s \in Picks(p),
        f \in {NoFault} \cup FaultsAt(points)
              \cup (IF IdleSlots(p) = {} THEN ConnectFaults ELSE {})}

\* a call of a pgx_demo function returned r
Returned(op, args, r) ==
    /\ db' = r.db
    /\ pool' = r.pool
    /\ last' = [op |-> op, args |-> args, err |-> r.err, val |-> r.val]

----------------------------------------------------------------------------
(* The package used by any caller (the benchmarks, main): calls in any order *)

CallBootstrapEnsureSchema ==
    \E dsn \in DSNs, env \in Envs(NilPool, BootstrapPoints) :
        Returned("BootstrapEnsureSchema", <<dsn>>, BootstrapEnsureSchema(db, pool, dsn, env))

CallBootstrapEnsureSchemaTwoTables ==
    \E dsn \in DSNs, env \in Envs(NilPool, BootstrapPoints) :
        Returned("BootstrapEnsureSchemaTwoTables", <<dsn>>,
                 BootstrapEnsureSchemaTwoTables(db, pool, dsn, env))

\* BuildPool returned r: the database is not touched
BuiltPool(d, r) == Ret(r.err, 0, d, r.pool, <<>>, d)

CallBuildPool ==
    /\ ~pool.built
    /\ \E dsn \in DSNs :
        Returned("BuildPool", <<dsn>>, BuiltPool(db, BuildPool(dsn)))

\* pool.Close()
CallClose ==
    /\ pool.built
    /\ Returned("Close", <<>>, Ret(Nil, 0, db, NilPool, <<>>, db))

CallPing ==
    /\ pool.built
    /\ \E env \in Envs(pool, {<<"Ping", "">>}) :
        Returned("Ping", <<>>, Ping(db, pool, env))

CallEnsureSchema ==
    /\ pool.built
    /\ \E env \in Envs(pool, EnsureSchemaPoints) :
        Returned("EnsureSchema", <<>>, EnsureSchema(db, pool, env))

CallUpsertUserAndLogLogin ==
    /\ pool.built
    /\ db.users_seq < MaxSeq
    /\ \E email \in Emails, name \in Names, middleName \in MiddleNames \cup {Nil},
          env \in Envs(pool, UpsertPoints) :
        Returned("UpsertUserAndLogLogin", <<email, name, middleName>>,
                 UpsertUserAndLogLogin(db, pool, email, name, middleName, env))

CallEnsureAccount ==
    /\ pool.built
    /\ \E userID \in 1..MaxSeq, env \in Envs(pool, {<<"Exec", psEnsureAccount>>}) :
        Returned("EnsureAccount", <<userID>>, EnsureAccount(db, pool, userID, env))

CallGetBalance ==
    /\ pool.built
    /\ \E userID \in 1..MaxSeq, env \in Envs(pool, {<<"QueryRow", psGetBalance>>}) :
        Returned("GetBalance", <<userID>>, GetBalance(db, pool, userID, env))

CallSampleAcquireRelease ==
    /\ pool.built
    /\ \E env \in Envs(pool, {<<"QueryRow", "select now()">>}) :
        Returned("SampleAcquireRelease", <<>>, SampleAcquireRelease(db, pool, env))

CallDemoScanWithPgtype ==
    /\ pool.built
    /\ \E email \in Emails, env \in Envs(pool, {<<"QueryRow", psGetUserByEmail>>}) :
        Returned("DemoScanWithPgtype", <<email>>, DemoScanWithPgtype(db, pool, email, env))

CallShowQueryMetadata ==
    /\ pool.built
    /\ \E env \in Envs(pool, TxQueryPoints \ {<<"Begin", "">>, <<"Commit", "">>}) :
        Returned("ShowQueryMetadata", <<>>, ShowQueryMetadata(db, pool, env))

CallShowPreparedStatementMetadata ==
    /\ pool.built
    /\ \E env \in Envs(pool, {<<"Prepare", "">>}) :
        Returned("ShowPreparedStatementMetadata", <<>>,
                 ShowPreparedStatementMetadata(db, pool, env))

CallTxQueryExample ==
    /\ pool.built
    /\ \E env \in Envs(pool, TxQueryPoints) :
        Returned("TxQueryExample", <<>>, TxQueryExample(db, pool, env))

CallInsertTypeSample ==
    /\ pool.built
    /\ db.samples_seq < MaxSamples
    /\ \E s \in Samples,
          env \in Envs(pool, {<<"QueryRow", psInsertTypeSample>>}) :
        Returned("InsertTypeSample", <<s>>, InsertTypeSample(db, pool, s, env))

CallGetTypeSample ==
    /\ pool.built
    /\ \E id \in 1..MaxSamples, env \in Envs(pool, {<<"QueryRow", psGetTypeSample>>}) :
        Returned("GetTypeSample", <<id>>, GetTypeSample(db, pool, id, env))

CallDemoPgErrorHandling ==
    /\ pool.built
    /\ db.users_seq < MaxSeq
    /\ \E email \in Emails, env \in Envs(pool, {<<"Exec", "INSERT INTO app_users">>}) :
        Returned("DemoPgErrorHandling", <<email>>, DemoPgErrorHandling(db, pool, email, env))

\* the pool's background work: it opens connections up to MinConns
PoolCreateIdle ==
    /\ pool.built
    /\ Cardinality(OpenSlots(pool)) < pool.MinConns
    /\ \E n \in {Construct(db, pool, [pick |-> 0, fault |-> NoFault])} :
          /\ n.err = Nil
          /\ pool' = [pool EXCEPT !.conns[FreeSlot(pool)] = n.conn]
    /\ UNCHANGED <<db, last>>

\* the pool's health check: an idle connection past its lifetime or idle time is closed
PoolHealthCheck ==
    /\ pool.built
    /\ \E s \in IdleSlots(pool) : pool' = [pool EXCEPT !.conns[s] = ClosedConn]
    /\ UNCHANGED <<db, last>>

\* callers of the schema and pool functions: the schema is made, the pool is
\* built, connections are opened, leased (Acquire, Begin, Exec, Query, QueryRow),
\* released and closed
Next ==
    /\ \/ CallBootstrapEnsureSchema
       \/ CallBootstrapEnsureSchemaTwoTables
       \/ CallBuildPool
       \/ CallClose
       \/ CallPing
       \/ CallEnsureSchema
       \/ CallSampleAcquireRelease
       \/ CallShowQueryMetadata
       \/ CallShowPreparedStatementMetadata
       \/ CallTxQueryExample
       \/ CallInsertTypeSample
       \/ CallGetTypeSample
       \/ CallGetBalance
       \/ CallDemoScanWithPgtype
       \/ PoolCreateIdle
       \/ PoolHealthCheck
    /\ UNCHANGED <<pc, locals, ran>>

Spec == Init /\ [][Next]_vars

\* callers of the functions that read and write app_users and accounts
UserNext ==
    /\ \/ CallBootstrapEnsureSchema
       \/ CallBuildPool
       \/ CallUpsertUserAndLogLogin
       \/ CallEnsureAccount
       \/ CallTxQueryExample
       \/ CallDemoPgErrorHandling
    /\ UNCHANGED <<pc, locals, ran>>

UserSpec == Init /\ [][UserNext]_vars

\* a caller of the pool (a goroutine) takes a connection and keeps it for a while
CallerAcquire ==
    /\ pool.built
    /\ \E env \in Envs(pool, {}) :
          \E a \in {Acquire(db, pool, env)} : pool' = a.pool
    /\ UNCHANGED <<db, last>>

\* a caller gives its connection back, usable or broken
CallerRelease ==
    /\ pool.built
    /\ \E s \in LeasedSlots(pool), broken \in BOOLEAN : pool' = Release(pool, s, broken)
    /\ UNCHANGED <<db, last>>

\* the pool used by several callers at once
PoolNext ==
    /\ \/ CallBuildPool
       \/ CallerAcquire
       \/ CallerRelease
       \/ PoolCreateIdle
       \/ PoolHealthCheck
    /\ UNCHANGED <<pc, locals, ran>>

PoolSpec == Init /\ [][PoolNext]_vars

----------------------------------------------------------------------------
(* main: one run of the program, step by step; the program may be run again *)


\* the calls of main with the pool built before the schema bootstrap
MainOrderPoolFirst ==
    <<"BuildPool", "BootstrapEnsureSchema", "Ping", "EnsureSchema",
      "UpsertUserAndLogLogin", "EnsureAccount", "GetBalance", "SampleAcquireRelease",
      "DemoScanWithPgtype", "ShowQueryMetadata", "ShowPreparedStatementMetadata",
      "TxQueryExample", "InsertTypeSample", "GetTypeSample", "DemoPgErrorHandling">>

\* the calls of main in their order
MainOrder ==
    <<"BootstrapEnsureSchema", "BuildPool", "Ping", "EnsureSchema",
      "UpsertUserAndLogLogin", "EnsureAccount", "GetBalance", "SampleAcquireRelease",
      "DemoScanWithPgtype", "ShowQueryMetadata", "ShowPreparedStatementMetadata",
      "TxQueryExample", "InsertTypeSample", "GetTypeSample", "DemoPgErrorHandling">>

StepAfter(step) ==
    LET i == CHOOSE k \in DOMAIN MainOrder : MainOrder[k] = step
    IN IF i = Len(MainOrder) THEN "Success" ELSE MainOrder[i + 1]

AfterStepIgnoreError(step, err) == StepAfter(step)

\* if err != nil { log.Fatalf(...) }: the process exits, nothing more runs
AfterStep(step, err) == IF err # Nil THEN "exit" ELSE StepAfter(step)

\* main calls the function of this step, which returns r
\* (var is the variable of main that takes the returned value, if any)
MainStep(step, args, r, var) ==
    /\ pc = step
    /\ Returned(step, args, r)
    /\ ran' = Append(ran, [step |-> step, err |-> r.err])
    /\ pc' = AfterStep(step, r.err)
    /\ locals' = IF r.err # Nil \/ var = "" THEN locals ELSE [locals EXCEPT ![var] = r.val]

\* dsn := os.Getenv("PGURL"), or the fallback
MainGetenv ==
    /\ pc = "Getenv"
    /\ \E dsn \in DSNs : locals' = [locals EXCEPT !.dsn = dsn]
    /\ pc' = MainOrder[1]
    /\ UNCHANGED <<db, pool, last, ran>>

MainBootstrapEnsureSchema ==
    \E env \in Envs(NilPool, BootstrapPoints) :
        MainStep("BootstrapEnsureSchema", <<locals.dsn>>,
                 BootstrapEnsureSchema(db, pool, locals.dsn, env), "")

MainBuildPool ==
    MainStep("BuildPool", <<locals.dsn>>, BuiltPool(db, BuildPool(locals.dsn)), "")

MainPing ==
    \E env \in Envs(pool, {<<"Ping", "">>}) :
        MainStep("Ping", <<>>, Ping(db, pool, env), "")

MainEnsureSchema ==
    \E env \in Envs(pool, EnsureSchemaPoints) :
        MainStep("EnsureSchema", <<>>, EnsureSchema(db, pool, env), "")

MainUpsertUserAndLogLogin ==
    \E env \in Envs(pool, UpsertPoints) :
        MainStep("UpsertUserAndLogLogin", <<"alice@example.com", "Alice", Nil>>,
                 UpsertUserAndLogLogin(db, pool, "alice@example.com", "Alice", Nil, env),
                 "userID")

MainEnsureAccount ==
    \E env \in Envs(pool, {<<"Exec", psEnsureAccount>>}) :
        MainStep("EnsureAccount", <<locals.userID>>,
                 EnsureAccount(db, pool, locals.userID, env), "")

MainGetBalance ==
    \E env \in Envs(pool, {<<"QueryRow", psGetBalance>>}) :
        MainStep("GetBalance", <<locals.userID>>,
                 GetBalance(db, pool, locals.userID, env), "")

MainSampleAcquireRelease ==
    \E env \in Envs(pool, {<<"QueryRow", "select now()">>}) :
        MainStep("SampleAcquireRelease", <<>>, SampleAcquireRelease(db, pool, env), "")

MainDemoScanWithPgtype ==
    \E env \in Envs(pool, {<<"QueryRow", psGetUserByEmail>>}) :
        MainStep("DemoScanWithPgtype", <<"alice@example.com">>,
                 DemoScanWithPgtype(db, pool, "alice@example.com", env), "")

MainShowQueryMetadata ==
    \E env \in Envs(pool, TxQueryPoints \ {<<"Begin", "">>, <<"Commit", "">>}) :
        MainStep("ShowQueryMetadata", <<>>, ShowQueryMetadata(db, pool, env), "")

MainShowPreparedStatementMetadata ==
    \E env \in Envs(pool, {<<"Prepare", "">>}) :
        MainStep("ShowPreparedStatementMetadata", <<>>,
                 ShowPreparedStatementMetadata(db, pool, env), "")

MainTxQueryExample ==
    \E env \in Envs(pool, TxQueryPoints) :
        MainStep("TxQueryExample", <<>>, TxQueryExample(db, pool, env), "")

MainInsertTypeSample ==
    \E env \in Envs(pool, {<<"QueryRow", psInsertTypeSample>>}) :
        MainStep("InsertTypeSample", <<MainSample>>,
                 InsertTypeSample(db, pool, MainSample, env), "sid")

MainGetTypeSample ==
    \E env \in Envs(pool, {<<"QueryRow", psGetTypeSample>>}) :
        MainStep("GetTypeSample", <<locals.sid>>,
                 GetTypeSample(db, pool, locals.sid, env), "")

MainDemoPgErrorHandling ==
    \E env \in Envs(pool, {<<"Exec", "INSERT INTO app_users">>}) :
        MainStep("DemoPgErrorHandling", <<"alice@example.com">>,
                 DemoPgErrorHandling(db, pool, "alice@example.com", env), "")

\* the last line of main logs the success; the deferred pool.Close() runs
MainSuccess ==
    /\ pc = "Success"
    /\ locals' = [locals EXCEPT !.logged = TRUE]
    /\ pool' = NilPool
    /\ pc' = "done"
    /\ UNCHANGED <<db, last, ran>>

\* the program is started again on the database the earlier run left
MainRestart ==
    /\ pc \in {"exit", "done"}
    /\ db.users_seq + 2 <= MaxRunSeq
    /\ db.samples_seq + 1 <= MaxRunSamples
    /\ pc' = "Getenv"
    /\ pool' = NilPool
    /\ last' = NoCall
    /\ locals' = [NoLocals EXCEPT
                     !.prev = IF pc = "done" /\ locals.logged
                              THEN [ok |-> TRUE, dsn |-> locals.dsn,
                                    userID |-> locals.userID, data |-> Data(db)]
                              ELSE NoPrev]
    /\ ran' = <<>>
    /\ UNCHANGED db

MainNext ==
    \/ MainGetenv
    \/ MainBootstrapEnsureSchema
    \/ MainBuildPool
    \/ MainPing
    \/ MainEnsureSchema
    \/ MainUpsertUserAndLogLogin
    \/ MainEnsureAccount
    \/ MainGetBalance
    \/ MainSampleAcquireRelease
    \/ MainDemoScanWithPgtype
    \/ MainShowQueryMetadata
    \/ MainShowPreparedStatementMetadata
    \/ MainTxQueryExample
    \/ MainInsertTypeSample
    \/ MainGetTypeSample
    \/ MainDemoPgErrorHandling
    \/ MainSuccess
    \/ MainRestart
    \/ (pc \notin {"exit", "done"} /\ PoolCreateIdle /\ UNCHANGED <<pc, locals, ran>>)
    \/ (pc \notin {"exit", "done"} /\ PoolHealthCheck /\ UNCHANGED <<pc, locals, ran>>)

MainSpec == Init /\ [][MainNext]_vars


----------------------------------------------------------------------------
(* The schema *)

ValidDSNs == {dsn \in DSNs : dsn.valid}

\* the schema functions of the package
SchemaOps == {"BootstrapEnsureSchema", "EnsureSchema"}

\* a run of a schema function that returned r from database d: tables and rows
\* are as they were, and it succeeded unless the environment failed it
SchemaRerun(d, r, env) ==
    /\ Data(r.db) = Data(d)
    /\ env.fault = NoFault => r.err = Nil

\* C1: schema creation is idempotent: after a successful run of
\* BootstrapEnsureSchema or EnsureSchema, a further run of either succeeds
\* (with a DSN that parses and no failure of the network or the server) and
\* leaves the set of tables and all rows unchanged, whatever the database holds
C1_SchemaIdempotent ==
    (last.op \in SchemaOps /\ last.err = Nil) =>
        /\ \A dsn \in ValidDSNs, env \in Envs(NilPool, BootstrapPoints) :
              SchemaRerun(db, BootstrapEnsureSchema(db, pool, dsn, env), env)
        /\ pool.built =>
              \A env \in Envs(pool, EnsureSchemaPoints) :
                  SchemaRerun(db, EnsureSchema(db, pool, env), env)

\* C1 witness: EnsureSchema returned nil on a database that held the tables
\* with rows in them, through a pool
C1_Witness ==
    /\ last.op = "EnsureSchema" /\ last.err = Nil
    /\ db.users # {} /\ db.accounts # {} /\ db.samples # {}
    /\ pool.built

\* C2: after BootstrapEnsureSchema returns nil (as either source file has it),
\* and after EnsureSchema returns nil, app_users, accounts and type_samples exist
C2_AllTablesExist ==
    (/\ last.op \in SchemaOps \cup {"BootstrapEnsureSchemaTwoTables"}
     /\ last.err = Nil) => TableNames \subseteq db.tables

----------------------------------------------------------------------------
(* The pool's connections *)

\* connection c has every statement of AfterConnect prepared under its name
FullyPrepared(c) == c.prepared = PsNames /\ c.application_name = "pgxpool-demo"

\* the connection a call got from Acquire is fully prepared
HandedOutPrepared(a) == a.err = Nil => FullyPrepared(a.pool.conns[a.slot])

\* C3: every connection in the pool, and every connection Acquire (and so
\* Begin, Exec, Query, QueryRow) hands out, has the same complete set of named
\* prepared statements: it is in the pool only if AfterConnect returned nil on it
C3_SamePreparedStatements ==
    /\ \A s \in OpenSlots(pool) : FullyPrepared(pool.conns[s])
    /\ pool.built =>
          \A env \in Envs(pool, {}) : HandedOutPrepared(Acquire(db, pool, env))

\* C3 witness: two connections are open; one had its unnamed statement replaced
\* by ShowPreparedStatementMetadata, the other not
C3_Witness ==
    \E s, t \in OpenSlots(pool) :
        /\ pool.conns[s].unnamed /\ ~pool.conns[t].unnamed
        /\ pool.conns[s].prepared = pool.conns[t].prepared


----------------------------------------------------------------------------
(* Transactions *)

\* the library call named call is in trace with an error / with nil
Failed(trace, call) == \E i \in DOMAIN trace : trace[i].call = call /\ trace[i].err # Nil
Succeeded(trace, call) == \E i \in DOMAIN trace : trace[i].call = call /\ trace[i].err = Nil

\* the arguments UpsertUserAndLogLogin is tried with
UpsertArgs == Emails \X Names \X (MiddleNames \cup {Nil})

\* both effects of UpsertUserAndLogLogin(email, ...) = id are in database d
BothVisible(d, email, id) ==
    \E u \in d.users : u.email = email /\ u.id = id /\ u.last_login # NULL

\* C4 as claimed: UpsertUserAndLogLogin returned r from database d; nil means
\* both effects are committed, an error means id 0 and tables and rows as before
AtomicAsClaimed(d, r, args) ==
    IF r.err = Nil THEN BothVisible(r.db, args[1], r.val)
    ELSE r.val = 0 /\ Data(r.db) = Data(d)

\* C4 (as claimed): UpsertUserAndLogLogin is atomic: nil means the user row
\* exists with a non-NULL last_login; an error at Begin, the upsert, the
\* last_login update or Commit means id 0 and a database unchanged from before
C4_AtomicAsClaimed ==
    pool.built =>
        \A args \in UpsertArgs, env \in Envs(pool, UpsertPoints) :
            AtomicAsClaimed(db, UpsertUserAndLogLogin(db, pool, args[1], args[2], args[3], env),
                            args)

\* the rows of d with both effects of UpsertUserAndLogLogin(args) applied by a
\* transaction that ran on database d
WithBothEffects(d, r, args) ==
    /\ \E u \in r.db.users :
          /\ u.email = args[1] /\ u.name = args[2] /\ u.last_login # NULL
          /\ r.db.users \ {u} = d.users \ UserByEmail(d, args[1])
    /\ r.db.accounts = d.accounts /\ r.db.samples = d.samples /\ r.db.tables = d.tables

\* C4 as amended, for one call
AtomicAmended(d, r, args) ==
    IF r.err = Nil THEN BothVisible(r.db, args[1], r.val)
    ELSE /\ r.val = 0
         /\ \/ Data(r.db) = Data(d)
            \/ Failed(r.trace, "Commit") /\ WithBothEffects(d, r, args)
         /\ ~Failed(r.trace, "Commit") => Data(r.db) = Data(d)

\* C4 (amended): UpsertUserAndLogLogin is all-or-nothing: nil means the user row
\* exists with a non-NULL last_login; an error means id 0; after an error from
\* Begin, the upsert or the last_login update tables and rows are unchanged;
\* after an error from Commit they are unchanged or hold both effects
C4_AllOrNothing ==
    pool.built =>
        \A args \in UpsertArgs, env \in Envs(pool, UpsertPoints) :
            AtomicAmended(db, UpsertUserAndLogLogin(db, pool, args[1], args[2], args[3], env),
                          args)

\* C4 witness: UpsertUserAndLogLogin returned an error and id 0, its connection
\* was destroyed, and the row of its email carries its name and a last_login
C4_Witness ==
    /\ last.op = "UpsertUserAndLogLogin" /\ last.err = ErrConn /\ last.val = 0
    /\ OpenSlots(pool) = {}
    /\ \E u \in db.users :
          /\ u.email = last.args[1] /\ u.name = last.args[2] /\ u.last_login # NULL
          /\ u.id = db.users_seq

\* a function with a deferred Rollback returned r: once Commit was called the
\* Rollback found the transaction closed and changed nothing
RollbackUndidNothing(r) ==
    Succeeded(r.trace, "Commit") \/ Failed(r.trace, "Commit") =>
        /\ r.db = r.beforeDefer
        /\ r.trace[Len(r.trace)] = Call("Rollback", "", ErrTxClosed)

\* UpsertUserAndLogLogin(args) returned r: when its Commit succeeded it returned
\* nil and the id, and the row with its last_login is there after the Rollback
CommitPersisted(r, args) ==
    Succeeded(r.trace, "Commit") => r.err = Nil /\ BothVisible(r.db, args[1], r.val)

\* C5: the deferred tx.Rollback undoes nothing once Commit has happened: in
\* UpsertUserAndLogLogin and TxQueryExample the database after the deferred
\* Rollback is the database Commit left, and after a successful Commit of
\* UpsertUserAndLogLogin the user row with its last_login persists
C5_RollbackAfterCommit ==
    pool.built =>
        /\ \A args \in UpsertArgs, env \in Envs(pool, UpsertPoints) :
              /\ RollbackUndidNothing(
                    UpsertUserAndLogLogin(db, pool, args[1], args[2], args[3], env))
              /\ CommitPersisted(
                    UpsertUserAndLogLogin(db, pool, args[1], args[2], args[3], env), args)
        /\ \A env \in Envs(pool, TxQueryPoints) :
              RollbackUndidNothing(TxQueryExample(db, pool, env))

\* C5 witness: UpsertUserAndLogLogin made a new user, returned nil and its id,
\* and the row is there with its last_login
C5_Witness ==
    /\ last.op = "UpsertUserAndLogLogin" /\ last.err = Nil
    /\ last.args[1] = "bench@example.com"
    /\ BothVisible(db, "bench@example.com", last.val)

----------------------------------------------------------------------------
(* Users and accounts *)

UniqueEmail(d) == \A u, v \in d.users : u.email = v.email => u = v

\* UpsertUserAndLogLogin(args) on database d, where the email exists, returned r
UpsertOfExisting(d, r, args, env) ==
    /\ env.fault = NoFault => r.err = Nil
    /\ r.err = Nil =>
          /\ Cardinality(r.db.users) = Cardinality(d.users)
          /\ {u.id : u \in r.db.users} = {u.id : u \in d.users}
          /\ \E old \in UserByEmail(d, args[1]), u \in UserByEmail(r.db, args[1]) :
                r.val = old.id /\ u.id = old.id /\ u.name = args[2]

\* C7: email is a unique key of app_users: there is at most one row per email,
\* and UpsertUserAndLogLogin with an email that exists makes no new row,
\* returns the id of the existing row and sets its name to the given name
C7_EmailUnique ==
    /\ UniqueEmail(db)
    /\ pool.built =>
          \A args \in UpsertArgs, env \in Envs(pool, UpsertPoints) :
              UserByEmail(db, args[1]) # {} =>
                  UpsertOfExisting(db, UpsertUserAndLogLogin(db, pool, args[1], args[2],
                                                             args[3], env), args, env)

\* C7 witness: the row of alice@example.com that was there at the start (id 1,
\* name "Al") was upserted: same id returned, the name replaced, still one row
C7_Witness ==
    /\ last.op = "UpsertUserAndLogLogin" /\ last.err = Nil
    /\ last.args[1] = "alice@example.com" /\ last.val = 1
    /\ db.users_seq > 1
    /\ \E u \in db.users : u.id = 1 /\ u.name = "Alice" /\ UserByEmail(db, u.email) = {u}

AccountsOf(d, userID) == {a \in d.accounts : a.user_id = userID}

\* EnsureAccount(userID) on database d returned r
EnsuredAccount(d, r, userID, env) ==
    /\ UserById(d, userID) # {} /\ env.fault = NoFault => r.err = Nil
    /\ AccountsOf(d, userID) # {} => r.db.accounts = d.accounts
    /\ UserById(d, userID) # {} /\ AccountsOf(d, userID) = {} /\ r.err = Nil =>
          r.db.accounts = d.accounts \cup {[user_id |-> userID, balance |-> 0]}

\* C8: accounts are one-to-one with users and made lazily: EnsureAccount for a
\* user without an account makes one account row with balance 0; for a user
\* with an account it returns nil and leaves the balance; there is at most one
\* account row per user
C8_LazyAccount ==
    /\ \A a, b \in db.accounts : a.user_id = b.user_id => a = b
    /\ pool.built =>
          \A userID \in 1..MaxSeq, env \in Envs(pool, {<<"Exec", psEnsureAccount>>}) :
              EnsuredAccount(db, EnsureAccount(db, pool, userID, env), userID, env)

\* C8 witness: EnsureAccount returned nil for a user whose account it made
\* (balance 0) while the account that was there at the start kept its balance
C8_Witness ==
    /\ last.op = "EnsureAccount" /\ last.err = Nil
    /\ [user_id |-> 1, balance |-> 500] \in db.accounts
    /\ last.args[1] # 1
    /\ [user_id |-> last.args[1], balance |-> 0] \in db.accounts

\* DemoPgErrorHandling(email) on database d, where the email exists, returned r
CaughtUniqueViolation(d, r, env) ==
    /\ r.db.users = d.users
    /\ env.fault = NoFault =>
          /\ r.err = Nil
          /\ \E i \in DOMAIN r.trace :
                r.trace[i] = Call("Exec", "INSERT INTO app_users", UniqueViolation)

\* C9: DemoPgErrorHandling with an email that is in app_users: the INSERT fails
\* with the unique violation 23505, the function returns nil, and app_users is
\* left unchanged
C9_UniqueViolationCaught ==
    pool.built =>
        \A email \in Emails, env \in Envs(pool, {<<"Exec", "INSERT INTO app_users">>}) :
            UserByEmail(db, email) # {} =>
                CaughtUniqueViolation(db, DemoPgErrorHandling(db, pool, email, env), env)

\* C9 witness: DemoPgErrorHandling returned nil for an email whose row it did
\* not insert (the name of the row is not 'Dupe')
C9_Witness ==
    /\ last.op = "DemoPgErrorHandling" /\ last.err = Nil
    /\ \E u \in db.users : u.email = last.args[1] /\ u.name # "Dupe"

----------------------------------------------------------------------------
(* TxQueryExample *)

\* the place of the first library call named call in trace (0: not there)
First(trace, call) ==
    IF \E i \in DOMAIN trace : trace[i].call = call
    THEN CHOOSE i \in DOMAIN trace :
            trace[i].call = call /\ \A j \in 1..(i - 1) : trace[j].call # call
    ELSE 0

\* the place of the last rows.Next in trace
LastNext(trace) ==
    CHOOSE i \in DOMAIN trace :
        trace[i].call = "Next" /\ \A j \in (i + 1)..Len(trace) : trace[j].call # "Next"

\* tx.Query, rows.Next/Scan, rows.Err(), rows.Close(), tx.Commit(), in this order
OrderAsClaimed(trace) ==
    /\ 0 < First(trace, "Query")
    /\ First(trace, "Query") < First(trace, "Next")
    /\ LastNext(trace) < First(trace, "rows.Err")
    /\ First(trace, "rows.Err") < First(trace, "rows.Close")
    /\ First(trace, "rows.Close") < First(trace, "Commit")

\* C10: on every successful run TxQueryExample calls tx.Query, then
\* rows.Next/Scan, then rows.Err(), then rows.Close(), then tx.Commit()
C10_CloseBeforeCommit ==
    pool.built =>
        \A env \in Envs(pool, TxQueryPoints) :
            TxQueryExample(db, pool, env).err = Nil =>
                OrderAsClaimed(TxQueryExample(db, pool, env).trace)


----------------------------------------------------------------------------
(* main *)

\* the steps main attempted are the first steps of its order, each once
InOrder ==
    /\ Len(ran) <= Len(MainOrder)
    /\ \A i \in DOMAIN ran : ran[i].step = MainOrder[i]

\* no step was attempted after a step that returned an error, and that error
\* ended the program
FirstErrorEnds ==
    /\ \A i \in DOMAIN ran : ran[i].err # Nil => i = Len(ran) /\ pc = "exit"
    /\ pc \notin {"Getenv", "Success", "exit", "done"} => pc = MainOrder[Len(ran) + 1]

\* the success message was logged only after every step returned nil
SuccessOnlyIfAllNil ==
    locals.logged \/ pc \in {"Success", "done"} =>
        /\ Len(ran) = Len(MainOrder)
        /\ \A i \in DOMAIN ran : ran[i].err = Nil

\* C6: in main the steps run in a fixed order, each at most once, the first
\* step that returns an error ends the program so that no later step runs, and
\* the success message is logged only if every step returned nil
C6_MainFailsFast == InOrder /\ FirstErrorEnds /\ SuccessOnlyIfAllNil

\* C6 witness: main ended at the error of a step after it had run at least
\* five steps that returned nil, and logged no success
C6_Witness ==
    /\ pc = "exit" /\ Len(ran) > 5
    /\ ran[Len(ran)].err # Nil
    /\ ~locals.logged


----------------------------------------------------------------------------
(* TypeSample round trip *)

\* out has the Valid flags of s, and every valid field the value its column
\* stored for the written one
ReadBackStored(s, out) ==
    \A f \in Fields :
        /\ out[f].Valid = s[f].Valid
        /\ s[f].Valid => out[f].V = ColumnValue(f, s[f].V)

\* out has the Valid flags of s, and every valid field the written value
ReadBackWritten(s, out) ==
    \A f \in Fields :
        /\ out[f].Valid = s[f].Valid
        /\ s[f].Valid => out[f].V = s[f].V

\* GetTypeSample returned g for the sample s
ReadStored(s, g) == g.err = Nil => ReadBackStored(s, g.val)
ReadWritten(s, g) == g.err = Nil => ReadBackWritten(s, g.val)

\* InsertTypeSample(s) returned i: every GetTypeSample of its id that returns
\* nil reads s back, as stored / as written
RoundTripStored(s, i) ==
    i.err = Nil =>
        \A env \in Envs(i.pool, {<<"QueryRow", psGetTypeSample>>}) :
            ReadStored(s, GetTypeSample(i.db, i.pool, i.val, env))

RoundTripWritten(s, i) ==
    i.err = Nil =>
        \A env \in Envs(i.pool, {<<"QueryRow", psGetTypeSample>>}) :
            ReadWritten(s, GetTypeSample(i.db, i.pool, i.val, env))

\* C11 (as claimed): for every TypeSample s, when InsertTypeSample(s) returns id
\* and GetTypeSample(id) returns out, every field of out has the Valid flag it
\* has in s and every valid field carries the value that was written
C11_RoundTripWritten ==
    pool.built =>
        \A s \in Samples, env \in Envs(pool, {<<"QueryRow", psInsertTypeSample>>}) :
            RoundTripWritten(s, InsertTypeSample(db, pool, s, env))

\* C11 (amended): for every TypeSample s, when InsertTypeSample(s) returns id
\* and GetTypeSample(id) returns out, every field of out has the Valid flag it
\* has in s (NULL is read back as Valid = false) and every valid field carries
\* the value its column stored: the written value, for Num rounded to two
\* decimal places and for TS cut to microseconds
C11_RoundTripStored ==
    pool.built =>
        \A s \in Samples, env \in Envs(pool, {<<"QueryRow", psInsertTypeSample>>}) :
            RoundTripStored(s, InsertTypeSample(db, pool, s, env))

\* C11 witness: GetTypeSample returned the row of FullSample: every field is
\* valid, Flag is false, and Num 1.005 came back as 1.010
C11_Witness ==
    /\ last.op = "GetTypeSample" /\ last.err = Nil
    /\ \A f \in Fields : last.val[f].Valid
    /\ last.val["Flag"].V = FALSE
    /\ last.val["Num"].V = 1010 /\ FullSample["Num"].V = 1005


----------------------------------------------------------------------------
(* Connections are given back *)

\* a function returned r: no connection of the pool is leased
NoneLeased(r) == LeasedSlots(r.pool) = {}

\* C12: no connection leak: SampleAcquireRelease, ShowPreparedStatementMetadata,
\* UpsertUserAndLogLogin and TxQueryExample have given their connection back
\* when they return, with nil and with every error; between calls the number
\* of leased connections is 0
C12_NoConnectionLeak ==
    /\ LeasedSlots(pool) = {}
    /\ pool.built =>
          /\ \A env \in Envs(pool, {<<"QueryRow", "select now()">>}) :
                NoneLeased(SampleAcquireRelease(db, pool, env))
          /\ \A env \in Envs(pool, {<<"Prepare", "">>}) :
                NoneLeased(ShowPreparedStatementMetadata(db, pool, env))
          /\ \A args \in UpsertArgs, env \in Envs(pool, UpsertPoints) :
                NoneLeased(UpsertUserAndLogLogin(db, pool, args[1], args[2], args[3], env))
          /\ \A env \in Envs(pool, TxQueryPoints) :
                NoneLeased(TxQueryExample(db, pool, env))

\* C12 witness: SampleAcquireRelease returned the connection error of its query:
\* the connection it had taken was given back (and destroyed), none is leased
C12_Witness ==
    /\ last.op = "SampleAcquireRelease" /\ last.err = ErrConn
    /\ LeasedSlots(pool) = {}
    /\ Cardinality(OpenSlots(pool)) < pool.MinConns


----------------------------------------------------------------------------
(* The connection string *)

\* the connection parameters cc hold no pool_* parameter
NoPoolParams(cc) == cc \cap PoolParams = {}

\* BootstrapEnsureSchema returned r: the server did not refuse its connection
\* for a parameter it does not know
BootstrapConnected(r) ==
    \A i \in DOMAIN r.trace :
        r.trace[i].call = "ConnectConfig" => r.trace[i].err # UnrecognizedParameter

\* C13: the pool_* parameters of the connection string are consumed when it is
\* parsed and are no part of the configuration of a single connection: neither
\* the connection of BootstrapEnsureSchema nor any connection of the pool is
\* opened with a pool_* parameter
C13_PoolParamsConsumed ==
    /\ \A dsn \in DSNs :
          /\ NoPoolParams(ParseConfig(dsn).cfg.ConnConfig)
          /\ \A env \in Envs(NilPool, BootstrapPoints) :
                BootstrapConnected(BootstrapEnsureSchema(db, pool, dsn, env))
    /\ NoPoolParams(pool.ConnConfig)
    /\ \A s \in OpenSlots(pool) : NoPoolParams(pool.conns[s].params)

\* C13 witness: the pool was built from a connection string with pool_*
\* parameters and has a connection open, which was opened with sslmode only
C13_Witness ==
    /\ last.op = "BuildPool" /\ last.err = Nil
    /\ PoolParams \subseteq DOMAIN last.args[1].params
    /\ \E s \in OpenSlots(pool) : pool.conns[s].params = {"sslmode"}


----------------------------------------------------------------------------
(* The limits of the pool *)

\* Acquire returned a while every connection the pool may have was leased: it
\* got none and opened none
AcquireRefused(p, a) ==
    Cardinality(LeasedSlots(p)) = MaxConns => a.err # Nil /\ a.pool = p

\* C14: BuildPool overrides the limits of the connection string: whatever its
\* pool_max_conns and pool_min_conns, the pool has MaxConns = 10 and
\* MinConns = 2, and never more than 10 connections are leased at once
C14_LimitsOverridden ==
    /\ \A dsn \in ValidDSNs :
          /\ BuildPool(dsn).pool.MaxConns = 10
          /\ BuildPool(dsn).pool.MinConns = 2
    /\ pool.built =>
          /\ pool.MaxConns = 10 /\ pool.MinConns = 2
          /\ Cardinality(LeasedSlots(pool)) <= 10
          /\ Cardinality(OpenSlots(pool)) <= 10
          /\ \A env \in Envs(pool, {}) : AcquireRefused(pool, Acquire(db, pool, env))

\* C14 witness: the pool was built from the connection string that asks for
\* pool_max_conns=3, and ten connections are leased at once
C14_Witness ==
    /\ last.op = "BuildPool" /\ last.err = Nil
    /\ Param(last.args[1], "pool_max_conns", 0) = 3
    /\ Cardinality(LeasedSlots(pool)) = 10


----------------------------------------------------------------------------
(* main: the schema before the pool *)

\* main called BuildPool only right after BootstrapEnsureSchema had returned nil
BootstrapBeforePool ==
    \A i \in DOMAIN ran :
        ran[i].step = "BuildPool" =>
            /\ i > 1
            /\ ran[i - 1].step = "BootstrapEnsureSchema" /\ ran[i - 1].err = Nil

\* the tables of the statements AfterConnect prepares
PreparedTables == {PreparedStatements[i].table : i \in DOMAIN PreparedStatements}

\* a connection the pool opened (n): no Prepare of AfterConnect found its table missing
TablesFound(n) ==
    \A i \in DOMAIN n.trace :
        n.trace[i].call = "Prepare" => n.trace[i].err # UndefinedTable

\* C15: in main the schema bootstrap precedes the pool: BuildPool is called only
\* after BootstrapEnsureSchema returned nil, so whenever AfterConnect prepares
\* the statements on a connection of the pool, every table they name exists
C15_SchemaBeforePool ==
    /\ BootstrapBeforePool
    /\ pool.built =>
          /\ PreparedTables \subseteq db.tables
          /\ \A f \in {NoFault} \cup ConnectFaults :
                TablesFound(Construct(db, pool, [pick |-> 0, fault |-> f]))

\* C15 witness: the database was new, main has bootstrapped it and built the
\* pool, and the pool has opened a connection with every statement prepared
C15_Witness ==
    /\ Len(ran) >= 2 /\ ran[2].step = "BuildPool" /\ ran[2].err = Nil
    /\ db.users = {} /\ db.users_seq = 0
    /\ \E s \in OpenSlots(pool) : pool.conns[s].prepared = PsNames


----------------------------------------------------------------------------
(* The hooks *)

\* Acquire on pool p returned a: an idle connection was there, so the one the
\* pool picked was handed out and none was destroyed
NotRejected(p, a, env) ==
    IdleSlots(p) # {} =>
        a.err = Nil /\ a.slot = env.pick /\ OpenSlots(a.pool) = OpenSlots(p)

\* the connection of a is idle in the pool that r left, as it was prepared
StaysInPool(a, r) ==
    /\ r.pool.conns[a.slot].state = "idle"
    /\ r.pool.conns[a.slot].prepared = a.pool.conns[a.slot].prepared

\* SampleAcquireRelease took its connection with a and returned r
KeptAlways(a, r) == a.err = Nil => StaysInPool(a, r)
KeptUnlessBroken(a, r) == a.err = Nil /\ r.err # ErrConn => StaysInPool(a, r)

\* C16 (as claimed): BeforeAcquire and AfterRelease always return true: no
\* connection is rejected at acquire time, and a released connection always
\* stays in the pool
C16_ReleasedAlwaysStays ==
    /\ \A s \in Slots(pool) : BeforeAcquire(pool.conns[s]) /\ AfterRelease(pool.conns[s])
    /\ pool.built =>
          \A env \in Envs(pool, {<<"QueryRow", "select now()">>}) :
              /\ NotRejected(pool, Acquire(db, pool, env), env)
              /\ KeptAlways(Acquire(db, pool, env), SampleAcquireRelease(db, pool, env))

\* C16 (amended): BeforeAcquire and AfterRelease always return true: no
\* connection is rejected at acquire time, and a released connection stays in
\* the pool unless the pool destroys it because it is broken
C16_HooksKeepConnections ==
    /\ \A s \in Slots(pool) : BeforeAcquire(pool.conns[s]) /\ AfterRelease(pool.conns[s])
    /\ pool.built =>
          \A env \in Envs(pool, {<<"QueryRow", "select now()">>}) :
              /\ NotRejected(pool, Acquire(db, pool, env), env)
              /\ KeptUnlessBroken(Acquire(db, pool, env),
                                  SampleAcquireRelease(db, pool, env))

\* C16 witness: SampleAcquireRelease returned nil and the one connection of the
\* pool, which it had used, is idle in the pool
C16_Witness ==
    /\ last.op = "SampleAcquireRelease" /\ last.err = Nil
    /\ Cardinality(OpenSlots(pool)) = 1
    /\ IdleSlots(pool) = OpenSlots(pool)


----------------------------------------------------------------------------
(* GetBalance *)

\* GetBalance(userID) on database d returned g
BalanceOrError(d, g, userID, env) ==
    /\ g.err = Nil => g.val.Valid
    /\ g.err # Nil => g.val = EmptyNumeric
    /\ AccountsOf(d, userID) = {} => g.err # Nil
    /\ AccountsOf(d, userID) # {} /\ env.fault = NoFault => g.err = Nil
    /\ g.err = Nil => \E a \in AccountsOf(d, userID) : g.val.Int = a.balance

\* Scan left a Numeric with Valid = false (the balance was NULL) and returned nil
ScannedNull(d, p) ==
    [err |-> Nil, val |-> EmptyNumeric, db |-> d, pool |-> p, trace |-> <<>>]

\* GetBalance(userID) returned g right after EnsureAccount had returned e
ZeroAfterEnsure(g, env) ==
    /\ g.err = Nil => g.val = [Int |-> 0, Valid |-> TRUE]
    /\ env.fault = NoFault => g.err = Nil

\* EnsureAccount(userID) returned e for a user who had no account
FirstEnsureThenZero(e, userID) ==
    e.err = Nil =>
        \A env \in Envs(e.pool, {<<"QueryRow", psGetBalance>>}) :
            ZeroAfterEnsure(GetBalance(e.db, e.pool, userID, env), env)

\* C17: GetBalance never returns nil with a Numeric that is not valid: it
\* returns an error when the user has no account row or the balance is NULL,
\* and the stored balance otherwise; right after the first EnsureAccount of a
\* user it returns balance 0
C17_BalanceValidOrError ==
    pool.built =>
        /\ \A userID \in 1..MaxSeq, env \in Envs(pool, {<<"QueryRow", psGetBalance>>}) :
              BalanceOrError(db, GetBalance(db, pool, userID, env), userID, env)
        /\ GetBalanceScanned(ScannedNull(db, pool)).err = ErrBalanceNull
        /\ GetBalanceScanned(ScannedNull(db, pool)).val = EmptyNumeric
        /\ \A userID \in 1..MaxSeq, env \in Envs(pool, {<<"Exec", psEnsureAccount>>}) :
              UserById(db, userID) # {} /\ AccountsOf(db, userID) = {} =>
                  FirstEnsureThenZero(EnsureAccount(db, pool, userID, env), userID)

\* C17 witness: main's GetBalance returned the balance 0 of the account that
\* its EnsureAccount had just made for a new user
C17_Witness ==
    /\ last.op = "GetBalance" /\ last.err = Nil
    /\ last.val = [Int |-> 0, Valid |-> TRUE]
    /\ db.accounts = {[user_id |-> locals.userID, balance |-> 0]}


----------------------------------------------------------------------------
(* DemoPgErrorHandling *)

\* the error pool.Exec returned to the function that returned r: the error of
\* the last library call before the connection was released
ExecError(r) ==
    LET calls == SelectSeq(r.trace, LAMBDA c : c.call # "Release")
    IN calls[Len(calls)].err

\* the rows DemoPgErrorHandling(email) added to database d
Added(d, r) == r.db.users \ d.users

\* DemoPgErrorHandling(email) on database d returned r
OtherErrorReturned(r) ==
    ExecError(r) # Nil /\ ExecError(r) \notin PgErrors => r.err = ExecError(r)

\* (the tables are there, nothing fails)
DupeInserted(d, r, email, env) ==
    TableNames \subseteq d.tables /\ UserByEmail(d, email) = {} /\ env.fault = NoFault =>
        /\ r.err = Nil
        /\ Cardinality(Added(d, r)) = 1
        /\ \A u \in Added(d, r) : u.email = email /\ u.name = "Dupe"
        /\ d.users \subseteq r.db.users

\* C18: DemoPgErrorHandling returns the error unchanged when the INSERT fails
\* with an error that is no *pgconn.PgError; when the email does not exist yet
\* the INSERT succeeds, exactly one row named 'Dupe' is added for that email
\* and nil is returned
C18_OtherErrorsAndDupe ==
    pool.built =>
        \A email \in Emails, env \in Envs(pool, {<<"Exec", "INSERT INTO app_users">>}) :
            /\ OtherErrorReturned(DemoPgErrorHandling(db, pool, email, env))
            /\ DupeInserted(db, DemoPgErrorHandling(db, pool, email, env), email, env)

\* C18 witness: DemoPgErrorHandling returned nil after it inserted the row
\* named 'Dupe' for its email, next to a row that was there
C18_Witness ==
    /\ last.op = "DemoPgErrorHandling" /\ last.err = Nil
    /\ \E u \in db.users :
          u.email = last.args[1] /\ u.name = "Dupe" /\ u.id = db.users_seq
    /\ Cardinality(db.users) > 1


\* pool.Exec returned the error err
ExecFailed(d, p, err) ==
    [err |-> err, val |-> 0, db |-> d, pool |-> p,
     trace |-> <<Call("Exec", "INSERT INTO app_users", err)>>]

\* DemoPgErrorHandling returned r: a *pgconn.PgError of pool.Exec became nil
PgErrorBecameNil(r) == ExecError(r) \in PgErrors => r.err = Nil

\* C19: DemoPgErrorHandling does not branch on the error code: every error of
\* pool.Exec that is a *pgconn.PgError is logged and nil is returned, whatever
\* its code, not only for the unique violation 23505
C19_AnyPgErrorBecomesNil ==
    /\ \A code \in PgErrors : DemoPgErrorHandled(ExecFailed(db, pool, code)).err = Nil
    /\ pool.built =>
          \A email \in Emails, env \in Envs(pool, {<<"Exec", "INSERT INTO app_users">>}) :
              PgErrorBecameNil(DemoPgErrorHandling(db, pool, email, env))

\* C19 witness: DemoPgErrorHandling returned nil although its email is not in
\* app_users and no row was inserted: the error it caught was not 23505
C19_Witness ==
    /\ last.op = "DemoPgErrorHandling" /\ last.err = Nil
    /\ TableNames \subseteq db.tables
    /\ UserByEmail(db, last.args[1]) = {}


----------------------------------------------------------------------------
(* UpsertUserAndLogLogin: middle_name *)

\* the row of a new email: middle_name is NULL for a nil middleName and the
\* string otherwise; the rows that were there are as they were
NewRowWritten(d, r, args) ==
    /\ \E u \in UserByEmail(r.db, args[1]) :
          /\ u.middle_name = (IF args[3] = Nil THEN NULL ELSE args[3])
          /\ u.name = args[2] /\ u.id = r.val
    /\ d.users \subseteq r.db.users

\* the row of an email that exists: only name and last_login change
OldRowKept(d, r, args) ==
    \E old \in UserByEmail(d, args[1]) :
        r.db.users = (d.users \ {old}) \cup {[old EXCEPT !.name = args[2], !.last_login = Now]}

\* UpsertUserAndLogLogin(args) on database d returned r
MiddleNameWritten(d, r, args) ==
    r.err = Nil =>
        IF UserByEmail(d, args[1]) = {} THEN NewRowWritten(d, r, args)
        ELSE OldRowKept(d, r, args)

\* C20: UpsertUserAndLogLogin writes a nil middleName as NULL and a non-nil one
\* as its string when the email is new; when the email exists it changes only
\* name and last_login and leaves middle_name, email, id and is_active of the
\* row as stored, whatever middleName is passed
C20_MiddleNameFrame ==
    pool.built =>
        \A args \in UpsertArgs, env \in Envs(pool, UpsertPoints) :
            MiddleNameWritten(db, UpsertUserAndLogLogin(db, pool, args[1], args[2],
                                                        args[3], env), args)

\* C20 witness: UpsertUserAndLogLogin was called with the middle name "Ann" for
\* the email that was there with middle_name NULL and is_active false, and
\* with the middle name "Ann" for a new email: the one row kept both, the other has "Ann"
C20_Witness ==
    /\ last.op = "UpsertUserAndLogLogin" /\ last.err = Nil /\ last.args[3] = "Ann"
    /\ \E u \in db.users :
          /\ u.email = last.args[1] /\ u.id = 1 /\ u.name = "Alice"
          /\ u.middle_name = NULL /\ ~u.is_active
    /\ \E v \in db.users : v.id # 1 /\ v.middle_name = "Ann"


----------------------------------------------------------------------------
(* AfterConnect *)

\* the steps of AfterConnect in their order
AfterConnectOrder ==
    <<"set application_name">> \o
    [i \in DOMAIN PreparedStatements |-> PreparedStatements[i].name]

\* the faults tried at every step of AfterConnect
AfterConnectFaults ==
    {NoFault} \cup
    FaultsAt({<<"Exec", "set application_name">>} \cup {<<"Prepare", n>> : n \in PsNames})

\* AfterConnect returned ac: its calls are the first steps of the order, only
\* the last of them may have failed, and its error is what AfterConnect returned
FailFast(ac) ==
    /\ Len(ac.trace) >= 1 /\ Len(ac.trace) <= Len(AfterConnectOrder)
    /\ \A i \in DOMAIN ac.trace :
          /\ ac.trace[i].arg = AfterConnectOrder[i]
          /\ i < Len(ac.trace) => ac.trace[i].err = Nil
    /\ ac.err = ac.trace[Len(ac.trace)].err
    /\ ac.err = Nil => Len(ac.trace) = Len(AfterConnectOrder)
    /\ ac.conn.prepared = {AfterConnectOrder[i] : i \in 2..Len(ac.trace)}
                              \ (IF ac.err # Nil THEN {AfterConnectOrder[Len(ac.trace)]} ELSE {})

\* the pool opened a connection (n): when AfterConnect failed, the pool got no connection
DroppedOnError(n) == n.err # Nil => n.conn = ClosedConn

\* Acquire on pool p returned a: on an error it left the pool as it was
NothingEntered(p, a) == a.err # Nil => a.pool = p

\* C21: AfterConnect is fail-fast: SET application_name and the Prepare calls
\* run in a fixed order, the first error is returned and no later step runs; a
\* connection on which it returned an error is not handed out and does not
\* enter the pool, so no connection of the pool has a part of the statements
C21_AfterConnectFailFast ==
    /\ \A f \in AfterConnectFaults :
          /\ FailFast(AfterConnect(db, [pick |-> 0, fault |-> f],
                                   [ClosedConn EXCEPT !.state = "idle"]))
          /\ pool.built => DroppedOnError(Construct(db, pool, [pick |-> 0, fault |-> f]))
    /\ pool.built =>
          \A env \in Envs(pool, {}) : NothingEntered(pool, Acquire(db, pool, env))
    /\ \A s \in OpenSlots(pool) :
          pool.conns[s].prepared = PsNames /\ pool.conns[s].state \in {"idle", "leased"}

\* C21 witness: the database has app_users and accounts but not type_samples;
\* Ping needed a new connection, AfterConnect failed at the first statement on
\* type_samples, Ping returned that error and the pool has no connection
C21_Witness ==
    /\ last.op = "Ping" /\ last.err = UndefinedTable
    /\ db.tables = {app_users, accounts}
    /\ pool.built /\ OpenSlots(pool) = {}


----------------------------------------------------------------------------
(* main run again *)

\* this run of main logged its success and the run before it had logged its own
SucceededAgain == pc = "done" /\ locals.logged /\ locals.prev.ok

\* the ids and emails of the rows of app_users
UserKeys(users) == {<<u.id, u.email>> : u \in users}

\* both runs got the same id for alice@example.com, the one row with that email
SameUser(prev) ==
    /\ locals.userID = prev.userID
    /\ UserKeys(UserByEmail(db, "alice@example.com")) = {<<prev.userID, "alice@example.com">>}
    /\ Cardinality(UserByEmail(db, "alice@example.com")) = 1

\* the user has one account, the one the earlier run left, balance included
SameAccount(prev) ==
    /\ Cardinality(AccountsOf(db, locals.userID)) = 1
    /\ AccountsOf(db, locals.userID) = {a \in prev.data.accounts : a.user_id = prev.userID}
    /\ db.accounts = prev.data.accounts

\* app_users has the rows it had (DemoPgErrorHandling added none)
SameUsers(prev) ==
    /\ UserKeys(db.users) = UserKeys(prev.data.users)
    /\ Cardinality(db.users) = Cardinality(prev.data.users)

\* type_samples has the rows it had and one more
OneMoreSample(prev) ==
    /\ prev.data.samples \subseteq db.samples
    /\ Cardinality(db.samples) = Cardinality(prev.data.samples) + 1

\* a run with the same dsn on the database of a successful run stops only for
\* an error of the connection or the server, at any of its calls
StoppedByEnvironment ==
    (pc = "exit" /\ locals.prev.ok /\ locals.dsn = locals.prev.dsn) =>
        ran[Len(ran)].err \in EnvErrors

\* C22: main run again on the database a successful run left succeeds again
\* (it stops only for an error of the environment); the id of
\* alice@example.com is the same in both runs, app_users and accounts keep one
\* row for that user with the balance unchanged, no row of app_users is added,
\* and type_samples grows by exactly one row
C22_MainRunAgain ==
    /\ StoppedByEnvironment
    /\ SucceededAgain =>
          /\ SameUser(locals.prev)
          /\ SameAccount(locals.prev)
          /\ SameUsers(locals.prev)
          /\ OneMoreSample(locals.prev)

\* C22 witness: the second of two successful runs is over, on a database that
\* had an account with a balance before the first run
C22_Witness ==
    /\ SucceededAgain
    /\ \E a \in db.accounts : a.balance # 0
    /\ Cardinality(db.samples) = 2


----------------------------------------------------------------------------
(* accounts.user_id REFERENCES app_users(id) *)

\* every row of accounts refers to a row of app_users
AccountsReferToUsers(d) == \A a \in d.accounts : UserById(d, a.user_id) # {}

\* the user ids EnsureAccount is tried with: those drawn so far, 0 and the next one
TriedUserIDs == 0..(db.users_seq + 1)

\* EnsureAccount returned r for a user id without a row in app_users: it is an
\* error, the foreign key violation when the statement reached the tables
\* without a fault, and accounts is as it was
RefusedUnknownUser(r, env) ==
    /\ r.err # Nil
    /\ r.db.accounts = db.accounts
    /\ (env.fault = NoFault /\ IdleSlots(pool) # {} /\ accounts \in db.tables)
           => r.err = ForeignKeyViolation

\* the call of EnsureAccount in main follows a successful UpsertUserAndLogLogin
\* and passes the id that one returned
EnsureAccountAfterUpsert ==
    /\ pc = "EnsureAccount" =>
          /\ ran[Len(ran)] = [step |-> "UpsertUserAndLogLogin", err |-> Nil]
          /\ last.op = "UpsertUserAndLogLogin" /\ last.err = Nil
          /\ last.val = locals.userID
          /\ UserKeys(UserById(db, locals.userID)) = {<<locals.userID, "alice@example.com">>}
    /\ (Len(ran) >= 1 /\ ran[Len(ran)].step = "EnsureAccount") =>
          /\ last.op = "EnsureAccount" /\ last.args = <<locals.userID>>
          /\ Len(ran) >= 2
          /\ ran[Len(ran) - 1] = [step |-> "UpsertUserAndLogLogin", err |-> Nil]
          /\ UserById(db, locals.userID) # {}

\* C23: every accounts row refers to an existing app_users row; EnsureAccount
\* with a user id that does not exist returns an error and creates no account;
\* main calls EnsureAccount only with the id a successful
\* UpsertUserAndLogLogin returned
C23_AccountsReferToUsers ==
    /\ AccountsReferToUsers(db)
    /\ pool.built =>
          \A userID \in TriedUserIDs, env \in Envs(pool, {<<"Exec", psEnsureAccount>>}) :
              /\ AccountsReferToUsers(EnsureAccount(db, pool, userID, env).db)
              /\ UserById(db, userID) = {} =>
                    RefusedUnknownUser(EnsureAccount(db, pool, userID, env), env)
    /\ EnsureAccountAfterUpsert

\* C23 witness: main's EnsureAccount created the account of the user its
\* upsert inserted, and a call with the next id, which no user has, is
\* refused with the foreign key violation
C23_Witness ==
    /\ pc = "GetBalance" /\ last.op = "EnsureAccount" /\ last.err = Nil
    /\ db.accounts = {[user_id |-> locals.userID, balance |-> 0]}
    /\ UserById(db, locals.userID) # {}
    /\ IdleSlots(pool) # {}
    /\ \A env \in Envs(pool, {}) :
          env.fault = NoFault =>
              EnsureAccount(db, pool, locals.userID + 1, env).err = ForeignKeyViolation

====
